---- MODULE Spec2Model ----
(***************************************************************************)
(* A model of the Yoyo rendering engine: the HTML parser (html.rs), the    *)
(* CSS parser (css.rs), the style resolver (style.rs), the layout engine   *)
(* (layout.rs) and the painter (painting.rs).                              *)
(*                                                                         *)
(* Conventions.                                                            *)
(*  - Option<T> is a sequence of length 0 (None) or 1 (Some).              *)
(*  - f32 pixel values are held exactly, in half pixels: Px(n) is n px.    *)
(*    Every length the CSS parser yields is a whole number of pixels here, *)
(*    so the one division of the engine (underflow / 2.0) is exact.        *)
(*    Rounding of f32 is not modelled.                                     *)
(*  - A String the parsers build or split (source text, tag names read by  *)
(*    the parsers, attribute values, selector ids and classes) is a        *)
(*    sequence of one-character strings; a String only ever compared as a  *)
(*    whole (property names, keywords, the tag names of an already parsed  *)
(*    document) is a TLA+ string.                                          *)
(*  - A panic (assert!, unwrap of None, todo!, panic!) ends the run in a   *)
(*    state that says so.                                                  *)
(***************************************************************************)
EXTENDS Integers, Sequences, FiniteSets, TLC

VARIABLES
    dom,               \* the document handed to style_tree (lib.rs: root_node)
    style_sheet,       \* the stylesheet handed to style_tree (lib.rs: stylesheet)
    containing_block,  \* the Dimensions handed to layout_tree (lib.rs: viewport)
    style_root,        \* Option<StyledNode>: what style_tree returned
    stack,             \* the activations of build_layout_tree, innermost last
    layout_root,       \* Option<LayoutBox>: the box tree of layout_tree
    stage,             \* where the pipeline of lib.rs::run stands
    html_parser,       \* html::Parser: [pos, input]
    html_stack,        \* the activations of parse_nodes: that of parse, then one
                       \* per parse_element that is waiting for its children
    html_state,        \* "running", "returned" or "panic"
    html_root,         \* Option<Node>: what html::parse returned
    html_log,          \* history: the nodes produced so far, with their place
                       \* in the source
    css_parser,        \* css::Parser: [pos, input]
    css_pc,            \* the loop of css::Parser the parser is in, or
                       \* "returned" or "panic"
    css_rules,         \* parse_rules: rules
    css_selectors,     \* parse_selectors: selectors
    css_selector,      \* parse_simple_selector: selector
    css_declarations,  \* parse_declarations: declarations
    css_value,         \* Option<Value>: what a call of parse_value on its own returned
    paint_bounds,      \* painting::paint: bounds
    paint_list,        \* painting::paint: display_list
    paint_next,        \* painting::paint: the item the for loop takes next
    canvas,            \* Option<Canvas>: painting::paint: canvas
    paint_pc,          \* "idle", "painting", "painted" or "paint_panic"
    match_elem,        \* style::matches_simple_selectors, match_rules: elem
    match_selector,    \* Option<SimpleSelector>: matches_simple_selectors: selector
    match_result,      \* Option<bool>: what matches_simple_selectors returned
    match_sheet,       \* style::match_rules: style_sheet.rules
    match_next,        \* match_rules: the rule filter_map takes next
    matched,           \* match_rules: the MatchedRules collected so far
    match_pc,          \* "idle", "called", "matching" or "returned"
    inline_box,        \* Option<LayoutBox>: layout_inline_children: self
    inline_containing_block,  \* layout_inline_children: containing_block
    inline_next        \* layout_inline_children: the child the for loop takes next

pipeVars == <<dom, style_sheet, containing_block, style_root, stack, layout_root, stage>>
htmlVars == <<html_parser, html_stack, html_state, html_root, html_log>>
cssVars ==
    <<css_parser, css_pc, css_rules, css_selectors, css_selector, css_declarations, css_value>>

paintVars == <<paint_bounds, paint_list, paint_next, canvas, paint_pc>>

matchVars ==
    <<match_elem, match_selector, match_result, match_sheet, match_next, matched, match_pc>>
inlineVars == <<inline_box, inline_containing_block, inline_next>>
unitVars == <<matchVars, inlineVars>>

vars == <<pipeVars, htmlVars, cssVars, paintVars, unitVars>>

(***************************************************************************)
(* Bounds of the model.                                                    *)
(***************************************************************************)
MaxNodes == 4     \* nodes of a document drawn for the scenario sheets
MaxLen == 2       \* largest length, in px, drawn for the block-width inputs
MaxRules == 3     \* rules of a stylesheet drawn for the cascade inputs
MaxHtmlTokens == 4  \* pieces an HTML source is put together from
MaxBoxes == 3     \* boxes of a box tree drawn for paint
MaxInlineChildren == 3  \* children of a container drawn for layout_inline_children
MaxClasses == 2   \* classes of a selector drawn for matches_simple_selectors
MaxSelectors == 2   \* selectors of a rule drawn for match_rules
MaxSheetRules == 2  \* rules of a stylesheet drawn for match_rules
MaxCssTokens == 4   \* pieces a CSS source is put together from
MaxFairCssTokens == 3  \* the same, where the parser is run to its end
MaxValueTokens == 3  \* pieces a CSS value is put together from
MaxDeclarations == 3  \* declarations of the rule of a CSS source

(***************************************************************************)
(* lib.rs: the viewport.                                                   *)
(***************************************************************************)
ViewportWidth == 800
ViewportHeight == 600

Px(n) == 2 * n
Half(u) == u \div 2

RECURSIVE SumSeq(_)
SumSeq(s) == IF s = <<>> THEN 0 ELSE Head(s) + SumSeq(Tail(s))

EmptyMap == [n \in {} |-> n]
Insert(map, name, value) ==
    [n \in DOMAIN map \cup {name} |-> IF n = name THEN value ELSE map[n]]

(***************************************************************************)
(* css.rs: values.                                                         *)
(***************************************************************************)
Keyword(s) == [type |-> "Keyword", kw |-> s, px |-> 0, rgba |-> <<0, 0, 0, 0>>]
Length(f) == [type |-> "Length", kw |-> "", px |-> f, rgba |-> <<0, 0, 0, 0>>]
Color(r, g, b, a) == [type |-> "Color", kw |-> "", px |-> 0, rgba |-> <<r, g, b, a>>]

to_px(v) == IF v.type = "Length" THEN v.px ELSE 0

SimpleSelector(tag_name, id, class) == [tag_name |-> tag_name, id |-> id, class |-> class]
Declaration(name, value) == [name |-> name, value |-> value]
Rule(selectors, declarations) == [selectors |-> selectors, declarations |-> declarations]

specificity(selector) == <<Len(selector.id), Len(selector.class), Len(selector.tag_name)>>

(***************************************************************************)
(* dom.rs: nodes.                                                          *)
(***************************************************************************)
text(data) ==
    [node_type |-> "Text", data |-> data, tag_name |-> "", attributes |-> EmptyMap,
     children |-> <<>>]
comment ==
    [node_type |-> "Comment", data |-> <<>>, tag_name |-> "", attributes |-> EmptyMap,
     children |-> <<>>]
element(tag_name, attrs, children) ==
    [node_type |-> "Element", data |-> <<>>, tag_name |-> tag_name, attributes |-> attrs,
     children |-> children]

id(elem) == IF "id" \in DOMAIN elem.attributes THEN <<elem.attributes["id"]>> ELSE <<>>

\* str::split(' '): the pieces between spaces, empty pieces included.
RECURSIVE SplitFrom(_, _)
SplitFrom(s, piece) ==
    IF s = <<>> THEN {piece}
    ELSE IF Head(s) = " " THEN {piece} \cup SplitFrom(Tail(s), <<>>)
    ELSE SplitFrom(Tail(s), Append(piece, Head(s)))

classes(elem) ==
    IF "class" \in DOMAIN elem.attributes THEN SplitFrom(elem.attributes["class"], <<>>)
    ELSE {}

(***************************************************************************)
(* style.rs: the styled tree and the cascade.                              *)
(***************************************************************************)
StyledNode(node, specified_values, children) ==
    [node |-> node, specified_values |-> specified_values, children |-> children]

value(node, name) ==
    IF name \in DOMAIN node.specified_values THEN <<node.specified_values[name]>> ELSE <<>>

lookup(node, name, fallback_name, default) ==
    IF value(node, name) # <<>> THEN value(node, name)[1]
    ELSE IF value(node, fallback_name) # <<>> THEN value(node, fallback_name)[1]
    ELSE default

\* display with Block, not Inline, for a node that specifies no keyword.
DisplayDefaultBlock(node) ==
    LET v == value(node, "display") IN
    IF v # <<>> /\ v[1].type = "Keyword"
    THEN IF v[1].kw = "block" THEN "Block"
         ELSE IF v[1].kw = "inline" THEN "Inline"
         ELSE "None"
    ELSE "Block"

display(node) ==
    LET v == value(node, "display") IN
    IF v # <<>> /\ v[1].type = "Keyword"
    THEN IF v[1].kw = "block" THEN "Block"
         ELSE IF v[1].kw = "inline" THEN "Inline"
         ELSE "None"
    ELSE "Inline"

\* matches_simple_selectors that lets an element without an id attribute pass
\* the id of the selector.
MatchesWithoutId(elem, selector) ==
    IF \E i \in DOMAIN selector.tag_name : elem.tag_name # selector.tag_name[i] THEN FALSE
    ELSE IF \E i \in DOMAIN selector.id : id(elem) # <<>> /\ id(elem) # <<selector.id[i]>>
    THEN FALSE
    ELSE IF \E i \in DOMAIN selector.class : selector.class[i] \notin classes(elem) THEN FALSE
    ELSE TRUE

matches_simple_selectors(elem, selector) ==
    IF \E i \in DOMAIN selector.tag_name : elem.tag_name # selector.tag_name[i] THEN FALSE
    ELSE IF \E i \in DOMAIN selector.id : id(elem) # <<selector.id[i]>> THEN FALSE
    ELSE IF \E i \in DOMAIN selector.class : selector.class[i] \notin classes(elem) THEN FALSE
    ELSE TRUE

matches(elem, selector) == matches_simple_selectors(elem, selector)

\* match_rule with the last of the matching selectors.
MatchRuleLast(elem, rule) ==
    LET found == {i \in DOMAIN rule.selectors : matches(elem, rule.selectors[i])} IN
    IF found = {} THEN <<>>
    ELSE LET last == CHOOSE i \in found : \A j \in found : j <= i IN
         << <<specificity(rule.selectors[last]), rule>> >>

\* Option<MatchedRule>: the rule paired with the specificity of its first
\* matching selector.
match_rule(elem, rule) ==
    LET found == {i \in DOMAIN rule.selectors : matches(elem, rule.selectors[i])} IN
    IF found = {} THEN <<>>
    ELSE LET first == CHOOSE i \in found : \A j \in found : i <= j IN
         << <<specificity(rule.selectors[first]), rule>> >>

RECURSIVE match_rules(_, _)
match_rules(elem, rules) ==
    IF rules = <<>> THEN <<>>
    ELSE match_rule(elem, Head(rules)) \o match_rules(elem, Tail(rules))

\* Ord on (usize, usize, usize): lexicographic.
SpecificityLess(a, b) ==
    \/ a[1] < b[1]
    \/ a[1] = b[1] /\ a[2] < b[2]
    \/ a[1] = b[1] /\ a[2] = b[2] /\ a[3] < b[3]

\* slice::sort_by is a stable sort: an element goes after every element that
\* does not compare greater than it.
RECURSIVE InsertSorted(_, _)
InsertSorted(sorted, m) ==
    IF sorted = <<>> THEN <<m>>
    ELSE IF SpecificityLess(m[1], Head(sorted)[1]) THEN <<m>> \o sorted
    ELSE <<Head(sorted)>> \o InsertSorted(Tail(sorted), m)

\* sort_by left out: the rules stay in stylesheet order.
SortByNothing(rules) == rules

RECURSIVE sort_by(_)
sort_by(rules) ==
    IF rules = <<>> THEN <<>>
    ELSE InsertSorted(sort_by(SubSeq(rules, 1, Len(rules) - 1)), rules[Len(rules)])

RECURSIVE InsertDeclarations(_, _)
InsertDeclarations(values, declarations) ==
    IF declarations = <<>> THEN values
    ELSE InsertDeclarations(Insert(values, Head(declarations).name, Head(declarations).value),
                            Tail(declarations))

RECURSIVE ApplyRules(_, _)
ApplyRules(values, rules) ==
    IF rules = <<>> THEN values
    ELSE ApplyRules(InsertDeclarations(values, Head(rules)[2].declarations), Tail(rules))

specified_values(elem, sheet) == ApplyRules(EmptyMap, sort_by(match_rules(elem, sheet)))

\* style_tree reaches todo!() at a comment node, wherever it is in the tree.
RECURSIVE style_tree_panics(_)
style_tree_panics(root) ==
    \/ root.node_type = "Comment"
    \/ \E i \in DOMAIN root.children : style_tree_panics(root.children[i])

RECURSIVE style_tree(_, _)
RECURSIVE StyleChildren(_, _)
StyleChildren(children, sheet) ==
    IF children = <<>> THEN <<>>
    ELSE <<style_tree(Head(children), sheet)>> \o StyleChildren(Tail(children), sheet)

style_tree(root, sheet) ==
    StyledNode(root,
               IF root.node_type = "Element" THEN specified_values(root, sheet) ELSE EmptyMap,
               StyleChildren(root.children, sheet))

(***************************************************************************)
(* layout.rs: dimensions and boxes.                                        *)
(***************************************************************************)
Rect(x, y, width, height) == [x |-> x, y |-> y, width |-> width, height |-> height]
EdgeSizes(top, right, bottom, left) ==
    [top |-> top, right |-> right, bottom |-> bottom, left |-> left]

DefaultDimensions ==
    [content |-> Rect(0, 0, 0, 0), padding |-> EdgeSizes(0, 0, 0, 0),
     border |-> EdgeSizes(0, 0, 0, 0), margin |-> EdgeSizes(0, 0, 0, 0)]

expanded_by(rect, edge) ==
    Rect(rect.x - edge.left, rect.y - edge.top,
         rect.width + edge.left + edge.right, rect.height + edge.top + edge.bottom)

padding_box(d) == expanded_by(d.content, d.padding)
border_box(d) == expanded_by(padding_box(d), d.border)
margin_box(d) == expanded_by(border_box(d), d.margin)

\* box_type is BlockNode(node), InlineNode(node) or AnonymousBlock; node is the
\* Option of the styled node the variant carries.
LayoutBoxNew(box_type, node) ==
    [dimensions |-> DefaultDimensions, box_type |-> box_type, node |-> node,
     children |-> <<>>]

get_style_node(box) == box.node[1]

\* get_inline_container both changes the box (it may push an anonymous box)
\* and returns a place in it: GetInlineContainer is the box afterwards,
\* PushInlineContainer pushes a child at the place returned.

\* get_inline_container without the look at the last child.
GetInlineContainerNoReuse(box) ==
    IF box.box_type \in {"InlineNode", "AnonymousBlock"} THEN box
    ELSE [box EXCEPT !.children = Append(@, LayoutBoxNew("AnonymousBlock", <<>>))]

GetInlineContainer(box) ==
    IF box.box_type \in {"InlineNode", "AnonymousBlock"} THEN box
    ELSE IF box.children # <<>> /\ box.children[Len(box.children)].box_type = "AnonymousBlock"
         THEN box
         ELSE [box EXCEPT !.children = Append(@, LayoutBoxNew("AnonymousBlock", <<>>))]

\* The push that puts the child first in the container.
PushInlineContainerFront(box, child) ==
    IF box.box_type \in {"InlineNode", "AnonymousBlock"}
    THEN [box EXCEPT !.children = <<child>> \o @]
    ELSE [box EXCEPT !.children[Len(box.children)].children = <<child>> \o @]

PushInlineContainer(box, child) ==
    IF box.box_type \in {"InlineNode", "AnonymousBlock"}
    THEN [box EXCEPT !.children = Append(@, child)]
    ELSE [box EXCEPT !.children[Len(box.children)].children = Append(@, child)]

(***************************************************************************)
(* layout.rs: geometry.                                                    *)
(***************************************************************************)
auto == Keyword("auto")
zero == Length(0)

\* The match of calculate_block_width on (width == auto, margin_left == auto,
\* margin_right == auto): the used <<width, margin_left, margin_right>>.
ResolveAutoKeepMargin(width, margin_left, margin_right, underflow) ==
    LET case == <<width = auto, margin_left = auto, margin_right = auto>>
        left0 == IF margin_left = auto THEN Length(0) ELSE margin_left
        right0 == IF margin_right = auto THEN Length(0) ELSE margin_right
    IN IF case = <<FALSE, FALSE, FALSE>>
       THEN <<width, margin_left, margin_right>>
       ELSE IF case = <<FALSE, FALSE, TRUE>>
       THEN <<width, margin_left, Length(underflow)>>
       ELSE IF case = <<FALSE, TRUE, FALSE>>
       THEN <<width, Length(underflow), margin_right>>
       ELSE IF case[1]
       THEN IF underflow >= 0
            THEN <<Length(underflow), left0, right0>>
            ELSE <<Length(0), left0, Length(to_px(right0) + underflow)>>
       ELSE <<width, Length(Half(underflow)), Length(Half(underflow))>>

\* The match with the whole underflow given to each of two auto margins.
ResolveAutoNoHalf(width, margin_left, margin_right, underflow) ==
    LET case == <<width = auto, margin_left = auto, margin_right = auto>>
        left0 == IF margin_left = auto THEN Length(0) ELSE margin_left
        right0 == IF margin_right = auto THEN Length(0) ELSE margin_right
    IN IF case = <<FALSE, FALSE, FALSE>>
       THEN <<width, margin_left, Length(to_px(margin_right) + underflow)>>
       ELSE IF case = <<FALSE, FALSE, TRUE>>
       THEN <<width, margin_left, Length(underflow)>>
       ELSE IF case = <<FALSE, TRUE, FALSE>>
       THEN <<width, Length(underflow), margin_right>>
       ELSE IF case[1]
       THEN IF underflow >= 0
            THEN <<Length(underflow), left0, right0>>
            ELSE <<Length(0), left0, Length(to_px(right0) + underflow)>>
       ELSE <<width, Length(underflow), Length(underflow)>>

ResolveAuto(width, margin_left, margin_right, underflow) ==
    LET case == <<width = auto, margin_left = auto, margin_right = auto>>
        left0 == IF margin_left = auto THEN Length(0) ELSE margin_left
        right0 == IF margin_right = auto THEN Length(0) ELSE margin_right
    IN IF case = <<FALSE, FALSE, FALSE>>
       THEN <<width, margin_left, Length(to_px(margin_right) + underflow)>>
       ELSE IF case = <<FALSE, FALSE, TRUE>>
       THEN <<width, margin_left, Length(underflow)>>
       ELSE IF case = <<FALSE, TRUE, FALSE>>
       THEN <<width, Length(underflow), margin_right>>
       ELSE IF case[1]
       THEN IF underflow >= 0
            THEN <<Length(underflow), left0, right0>>
            ELSE <<Length(0), left0, Length(to_px(right0) + underflow)>>
       ELSE <<width, Length(Half(underflow)), Length(Half(underflow))>>

calculate_block_width(box, containing_block_) ==
    LET style == get_style_node(box)
        width == IF value(style, "width") # <<>> THEN value(style, "width")[1] ELSE auto
        margin_left == lookup(style, "margin-left", "margin", zero)
        margin_right == lookup(style, "margin-right", "margin", zero)
        border_left == lookup(style, "border-left-width", "border-width", zero)
        border_right == lookup(style, "border-right-width", "border-width", zero)
        padding_left == lookup(style, "padding-left", "padding", zero)
        padding_right == lookup(style, "padding-right", "padding", zero)
        total == to_px(margin_left) + to_px(margin_right) + to_px(border_left)
                 + to_px(border_right) + to_px(padding_left) + to_px(padding_right)
                 + to_px(width)
        over == width # auto /\ total > containing_block_.content.width
        margin_left1 == IF over /\ margin_left = auto THEN Length(0) ELSE margin_left
        margin_right1 == IF over /\ margin_right = auto THEN Length(0) ELSE margin_right
        underflow == containing_block_.content.width - total
        used == ResolveAuto(width, margin_left1, margin_right1, underflow)
    IN [box EXCEPT !.dimensions.content.width = to_px(used[1]),
                   !.dimensions.padding.left = to_px(padding_left),
                   !.dimensions.padding.right = to_px(padding_right),
                   !.dimensions.border.left = to_px(border_left),
                   !.dimensions.border.right = to_px(border_right),
                   !.dimensions.margin.left = to_px(used[2]),
                   !.dimensions.margin.right = to_px(used[3])]

calculate_inline_width(box) ==
    LET style == get_style_node(box)
        width == IF value(style, "width") # <<>> THEN value(style, "width")[1] ELSE zero
    IN [box EXCEPT
           !.dimensions.content.width = to_px(width),
           !.dimensions.padding.left = to_px(lookup(style, "padding-left", "padding", zero)),
           !.dimensions.padding.right = to_px(lookup(style, "padding-right", "padding", zero)),
           !.dimensions.border.left =
               to_px(lookup(style, "border-left-width", "border-width", zero)),
           !.dimensions.border.right =
               to_px(lookup(style, "border-right-width", "border-width", zero)),
           !.dimensions.margin.left = to_px(lookup(style, "margin-left", "margin", zero)),
           !.dimensions.margin.right = to_px(lookup(style, "margin-right", "margin", zero))]

calculate_position_by_styles(box) ==
    LET style == get_style_node(box) IN
    [box EXCEPT
        !.dimensions.margin.top = to_px(lookup(style, "margin-top", "margin", zero)),
        !.dimensions.margin.bottom = to_px(lookup(style, "margin-bottom", "margin", zero)),
        !.dimensions.border.top =
            to_px(lookup(style, "border-top-width", "border-width", zero)),
        !.dimensions.border.bottom =
            to_px(lookup(style, "border-bottom-width", "border-width", zero)),
        !.dimensions.padding.top = to_px(lookup(style, "padding-top", "padding", zero)),
        !.dimensions.padding.bottom = to_px(lookup(style, "padding-bottom", "padding", zero))]

calculate_block_position(box, containing_block_) ==
    LET d == box.dimensions IN
    [box EXCEPT
        !.dimensions.content.x =
            containing_block_.content.x + d.margin.left + d.border.left + d.padding.left,
        !.dimensions.content.y =
            containing_block_.content.height + containing_block_.content.y
            + d.margin.top + d.border.top + d.padding.top]

\* calculate_anonymous_position at the content origin of the containing block.
CalculateAnonymousPositionAtOrigin(box, containing_block_) ==
    [box EXCEPT
        !.dimensions.content.x = containing_block_.content.x,
        !.dimensions.content.y = containing_block_.content.y]

calculate_anonymous_position(box, containing_block_) ==
    [box EXCEPT
        !.dimensions.content.x = containing_block_.content.x,
        !.dimensions.content.y =
            containing_block_.content.height + containing_block_.content.y]

calculate_inline_position(box, containing_block_) ==
    LET d == box.dimensions IN
    [box EXCEPT
        !.dimensions.content.x =
            containing_block_.content.x + containing_block_.content.width
            + d.margin.left + d.border.left + d.padding.left,
        !.dimensions.content.y =
            containing_block_.content.y + d.margin.top + d.border.top + d.padding.top]

\* calculate_block_height without the overwrite.
CalculateBlockHeightKeep(box) == box

calculate_block_height(box) ==
    LET h == value(get_style_node(box), "height") IN
    IF h # <<>> /\ h[1].type = "Length"
    THEN [box EXCEPT !.dimensions.content.height = h[1].px]
    ELSE box

RECURSIVE layout(_, _)
RECURSIVE LayoutBlockChildrenFrom(_, _)
RECURSIVE LayoutInlineChildrenFrom(_, _, _)

\* One turn of the loop of layout_block_children per child i.
LayoutBlockChildrenFrom(box, i) ==
    IF i > Len(box.children) THEN box
    ELSE LET child == layout(box.children[i], box.dimensions) IN
         LayoutBlockChildrenFrom(
             [box EXCEPT !.children[i] = child,
                         !.dimensions.content.height =
                             @ + margin_box(child.dimensions).height],
             i + 1)

layout_block_children(box) == LayoutBlockChildrenFrom(box, 1)

\* One turn of the loop of layout_inline_children, for child i.
LayoutInlineChild(box, containing_block_, i) ==
    LET child == layout(box.children[i], box.dimensions)
        new_width == box.dimensions.content.width + margin_box(child.dimensions).width
    IN IF new_width > containing_block_.content.width
       THEN [box EXCEPT !.children[i] = child,
                        !.dimensions.content.width = 0,
                        !.dimensions.content.y = @ + containing_block_.content.y]
       ELSE [box EXCEPT !.children[i] = child,
                        !.dimensions.content.width = new_width]

LayoutInlineChildrenFrom(box, containing_block_, i) ==
    IF i > Len(box.children) THEN box
    ELSE LayoutInlineChildrenFrom(LayoutInlineChild(box, containing_block_, i),
                                  containing_block_, i + 1)

layout_inline_children(box, containing_block_) ==
    LayoutInlineChildrenFrom(box, containing_block_, 1)

layout_block(box, containing_block_) ==
    calculate_block_height(
        layout_block_children(
            calculate_block_position(
                calculate_position_by_styles(calculate_block_width(box, containing_block_)),
                containing_block_)))

\* layout_anonymous_block without the assignment of the height.
LayoutAnonymousBlockNoHeight(box, containing_block_) ==
    layout_inline_children(calculate_anonymous_position(box, containing_block_),
                           containing_block_)

layout_anonymous_block(box, containing_block_) ==
    [layout_inline_children(calculate_anonymous_position(box, containing_block_),
                            containing_block_)
     EXCEPT !.dimensions.content.height = containing_block_.content.height]

layout_inline(box, containing_block_) ==
    layout_inline_children(
        calculate_block_height(
            calculate_inline_width(
                calculate_inline_position(calculate_position_by_styles(box),
                                          containing_block_))),
        containing_block_)

layout(box, containing_block_) ==
    IF box.box_type = "BlockNode" THEN layout_block(box, containing_block_)
    ELSE IF box.box_type = "InlineNode" THEN layout_inline(box, containing_block_)
    ELSE layout_anonymous_block(box, containing_block_)

(***************************************************************************)
(* html.rs and css.rs: the cursor.  Both parsers have the same Parser     *)
(* struct and the same next_char, eof, consume_char, consume_while and     *)
(* consume_whitespace.  A parser p is [pos, input]; pos counts from 0, so  *)
(* the next character is input[pos + 1].  The sources are ASCII, where     *)
(* consume_char advances by one.  A test of consume_while is the set of    *)
(* the characters it accepts.                                              *)
(***************************************************************************)
Letters ==
    {"a", "b", "c", "d", "e", "f", "g", "h", "i", "j", "k", "l", "m", "n", "o", "p", "q", "r",
     "s", "t", "u", "v", "w", "x", "y", "z"}
Digits == {"0", "1", "2", "3", "4", "5", "6", "7", "8", "9"}
Chars ==
    Letters \cup Digits \cup
    {"<", ">", "/", "!", "=", "'", " ", "#", ".", ",", "{", "}", ":", ";", "-", "*", "%", "(",
     ")"}
Whitespace == {" "}
Alphanumeric == Letters \cup Digits

eof(p) == p.pos >= Len(p.input)
next_char(p) == p.input[p.pos + 1]
next_next_char(p) == p.input[p.pos + 2]
HasNextNext(p) == p.pos + 2 <= Len(p.input)
start_with(p, s) ==
    /\ p.pos + Len(s) <= Len(p.input)
    /\ SubSeq(p.input, p.pos + 1, p.pos + Len(s)) = s

\* consume_char that leaves the cursor where it is.
ConsumeCharInPlace(p) == p

consume_char(p) == [p EXCEPT !.pos = @ + 1]

\* The parser after consume_while(test), and the string it returns.
consume_while(p, test) ==
    LET stop == CHOOSE k \in p.pos..Len(p.input) :
                    /\ k = Len(p.input) \/ p.input[k + 1] \notin test
                    /\ \A j \in p.pos..(k - 1) : p.input[j + 1] \in test
    IN [p |-> [p EXCEPT !.pos = stop], result |-> SubSeq(p.input, p.pos + 1, stop)]

consume_whitespace(p) == consume_while(p, Whitespace).p

\* assert!(self.consume_char() == c): consume_char unwraps the next character.
Panic(p) == [ok |-> FALSE, p |-> p]
Expect(p, c) ==
    IF ~eof(p) /\ next_char(p) = c THEN [ok |-> TRUE, p |-> consume_char(p)] ELSE Panic(p)

(***************************************************************************)
(* html.rs: the parser.                                                    *)
(***************************************************************************)
parse_tag_name(p) == consume_while(p, Alphanumeric)

parse_attributes_value(p) ==
    IF eof(p) \/ next_char(p) \notin {"\"", "'"} THEN Panic(p)
    ELSE LET open_quote == next_char(p)
             v == consume_while(consume_char(p), Chars \ {open_quote})
             close == Expect(v.p, open_quote)
         IN IF close.ok THEN [ok |-> TRUE, p |-> close.p, value |-> v.result] ELSE Panic(p)

parse_attr(p) ==
    LET name == parse_tag_name(p)
        eq == Expect(name.p, "=")
        v == parse_attributes_value(eq.p)
    IN IF eq.ok /\ v.ok
       THEN [ok |-> TRUE, p |-> v.p, name |-> name.result, value |-> v.value]
       ELSE Panic(p)

\* The loop of parse_attributes from the attributes read so far.
RECURSIVE ParseAttributesFrom(_, _)
ParseAttributesFrom(p, attributes) ==
    LET p1 == consume_whitespace(p) IN
    IF eof(p1) THEN Panic(p1)
    ELSE IF next_char(p1) = ">" THEN [ok |-> TRUE, p |-> p1, attributes |-> attributes]
    ELSE LET a == parse_attr(p1) IN
         IF a.ok THEN ParseAttributesFrom(a.p, Insert(attributes, a.name, a.value))
         ELSE Panic(p1)

parse_attributes(p) == ParseAttributesFrom(p, EmptyMap)

\* An activation of parse_nodes: `nodes`, and the tag_name and attrs of the
\* parse_element that called it (none for the call by parse).  open_at is
\* where that element's `<` stands in the source.
HtmlFrame(tag_name, attrs, open_at) ==
    [tag_name |-> tag_name, attrs |-> attrs, nodes |-> <<>>, open_at |-> open_at]

HtmlTop == html_stack[Len(html_stack)]
HtmlPushNode(node) ==
    [html_stack EXCEPT ![Len(html_stack)].nodes = Append(@, node)]

\* A line of the history: a node, the depth it was produced at (1: top
\* level), and for an element the places of its `<` and of its `</`.
Produced(node, depth, open_at, close_at) ==
    [node |-> node, depth |-> depth, open_at |-> open_at, close_at |-> close_at]

\* Where a turn of the loop of parse_nodes stands once it has consumed the
\* whitespace.
AtNode == consume_whitespace(html_parser)
BreakNodes == eof(AtNode) \/ start_with(AtNode, <<"<", "/">>)

HtmlPanic ==
    /\ html_state' = "panic"
    /\ UNCHANGED <<html_stack, html_root, html_log>>

\* parse_nodes, one turn that goes to parse_comment, or that panics in
\* parse_node, which unwraps the character after `<`.
HtmlComment ==
    /\ html_state = "running"
    /\ ~BreakNodes
    /\ next_char(AtNode) = "<"
    /\ IF HasNextNext(AtNode) THEN next_next_char(AtNode) = "!" ELSE TRUE
    /\ IF ~HasNextNext(AtNode)
       THEN html_parser' = AtNode /\ HtmlPanic
       ELSE /\ html_parser' = consume_while(consume_char(AtNode), Chars \ {"<"}).p
            /\ html_stack' = HtmlPushNode(comment)
            /\ html_log' = Append(html_log, Produced(comment, Len(html_stack), AtNode.pos, 0))
            /\ UNCHANGED <<html_state, html_root>>
    /\ UNCHANGED <<pipeVars, cssVars, paintVars, unitVars>>

\* parse_nodes, one turn that goes to parse_text.
HtmlText ==
    /\ html_state = "running"
    /\ ~BreakNodes
    /\ next_char(AtNode) # "<"
    /\ LET t == consume_while(AtNode, Chars \ {"<"}) IN
       /\ html_parser' = t.p
       /\ html_stack' = HtmlPushNode(text(t.result))
       /\ html_log' = Append(html_log, Produced(text(t.result), Len(html_stack), AtNode.pos, 0))
    /\ UNCHANGED <<html_state, html_root>>
    /\ UNCHANGED <<pipeVars, cssVars, paintVars, unitVars>>

\* parse_nodes, one turn that goes to parse_element, up to its call of
\* parse_nodes for the children.
HtmlOpenElement ==
    /\ html_state = "running"
    /\ ~BreakNodes
    /\ next_char(AtNode) = "<"
    /\ HasNextNext(AtNode)
    /\ next_next_char(AtNode) # "!"
    /\ LET tag_name == parse_tag_name(consume_char(AtNode))
           attrs == parse_attributes(tag_name.p)
           gt == Expect(attrs.p, ">")
       IN IF attrs.ok /\ gt.ok
          THEN /\ html_parser' = gt.p
               /\ html_stack' =
                      Append(html_stack, HtmlFrame(tag_name.result, attrs.attributes, AtNode.pos))
               /\ UNCHANGED <<html_state, html_root, html_log>>
          ELSE html_parser' = attrs.p /\ HtmlPanic
    /\ UNCHANGED <<pipeVars, cssVars, paintVars, unitVars>>

\* The closing tag of parse_element: the four asserts after parse_nodes.
CloseTag(p, tag_name) ==
    LET lt == Expect(p, "<")
        slash == Expect(lt.p, "/")
        name == parse_tag_name(slash.p)
        gt == Expect(name.p, ">")
    IN IF lt.ok /\ slash.ok /\ name.result = tag_name /\ gt.ok
       THEN [ok |-> TRUE, p |-> gt.p]
       ELSE Panic(p)

\* parse_nodes breaks inside an element: parse_element reads the closing tag
\* and returns the element to the loop of the parse_nodes that called it,
\* which pushes it.
HtmlCloseElement ==
    /\ html_state = "running"
    /\ BreakNodes
    /\ Len(html_stack) > 1
    /\ LET close == CloseTag(AtNode, HtmlTop.tag_name)
           node == element(HtmlTop.tag_name, HtmlTop.attrs, HtmlTop.nodes)
           depth == Len(html_stack) - 1
       IN IF close.ok
          THEN /\ html_parser' = close.p
               /\ html_stack' =
                      [SubSeq(html_stack, 1, depth) EXCEPT ![depth].nodes = Append(@, node)]
               /\ html_log' =
                      Append(html_log, Produced(node, depth, HtmlTop.open_at, AtNode.pos))
               /\ UNCHANGED <<html_state, html_root>>
          ELSE html_parser' = AtNode /\ HtmlPanic
    /\ UNCHANGED <<pipeVars, cssVars, paintVars, unitVars>>

\* What parse makes of the nodes of the top level: nodes.pop().
PopFirst(nodes) == <<nodes[1]>>
Pop(nodes) == <<nodes[Len(nodes)]>>

\* parse_nodes breaks at the top level: parse pops the last node and unwraps.
HtmlReturn ==
    /\ html_state = "running"
    /\ BreakNodes
    /\ Len(html_stack) = 1
    /\ html_parser' = AtNode
    /\ IF HtmlTop.nodes = <<>>
       THEN HtmlPanic
       ELSE /\ html_root' = Pop(HtmlTop.nodes)
            /\ html_state' = "returned"
            /\ UNCHANGED <<html_stack, html_log>>
    /\ UNCHANGED <<pipeVars, cssVars, paintVars, unitVars>>

(***************************************************************************)
(* css.rs: the parser.  The sources of the model write whole numbers and   *)
(* the hexadecimal digits 1, a, b, c.                                      *)
(***************************************************************************)
NameChars == Alphanumeric \cup {"-"}
DigitValue ==
    ("0" :> 0) @@ ("1" :> 1) @@ ("2" :> 2) @@ ("3" :> 3) @@ ("4" :> 4) @@ ("5" :> 5)
    @@ ("6" :> 6) @@ ("7" :> 7) @@ ("8" :> 8) @@ ("9" :> 9)
HexDigit ==
    DigitValue @@ ("a" :> 10) @@ ("b" :> 11) @@ ("c" :> 12) @@ ("d" :> 13) @@ ("e" :> 14)
    @@ ("f" :> 15)

parse_name(p) == consume_while(p, NameChars)

\* str.parse::<f32>() of a run of digits and at most one `.`, in half
\* pixels.  The numbers of the model are whole or half: after the point stand
\* no digits, or zeros, or a 5 and zeros.
RECURSIVE DecimalValue(_)
DecimalValue(str) ==
    IF str = <<>> THEN 0
    ELSE 10 * DecimalValue(SubSeq(str, 1, Len(str) - 1)) + DigitValue[str[Len(str)]]

ParseF32(str) ==
    LET point == IF \E k \in DOMAIN str : str[k] = "."
                 THEN CHOOSE k \in DOMAIN str : str[k] = "."
                 ELSE Len(str) + 1
    IN Px(DecimalValue(SubSeq(str, 1, point - 1)))
       + (IF point < Len(str) /\ str[point + 1] = "5" THEN 1 ELSE 0)

\* More than one `.` in the run makes parse() fail, and unwrap panic.
parse_number(p) ==
    LET run == consume_while(p, Digits \cup {"."}) IN
    IF Cardinality({k \in DOMAIN run.result : run.result[k] = "."}) > 1 THEN Panic(p)
    ELSE [ok |-> TRUE, p |-> run.p, number |-> ParseF32(run.result)]

\* The slice input[pos..pos + 2] panics past the end of the input, and
\* from_str_radix(.., 16).unwrap() on anything but hexadecimal digits.
parse_hex_pair(p) ==
    IF /\ HasNextNext(p)
       /\ next_char(p) \in DOMAIN HexDigit
       /\ next_next_char(p) \in DOMAIN HexDigit
    THEN [ok |-> TRUE, p |-> [p EXCEPT !.pos = @ + 2],
          byte |-> 16 * HexDigit[next_char(p)] + HexDigit[next_next_char(p)]]
    ELSE Panic(p)

parse_color(p) ==
    LET r == parse_hex_pair(p)
        g == parse_hex_pair(r.p)
        b == parse_hex_pair(g.p)
    IN IF r.ok /\ g.ok /\ b.ok
       THEN [ok |-> TRUE, p |-> b.p, value |-> Color(r.byte, g.byte, b.byte, 255)]
       ELSE Panic(p)

\* parse_value that leaves what follows the number where it is.
ParseValueNoDiscard(p) ==
    IF eof(p) THEN Panic(p)
    ELSE IF next_char(p) \in Digits
    THEN LET length == parse_number(p) IN
         IF length.ok
         THEN [ok |-> TRUE, p |-> length.p, value |-> Length(length.number)]
         ELSE Panic(p)
    ELSE IF next_char(p) = "#" THEN parse_color(consume_char(p))
    ELSE LET name == parse_name(p) IN
         [ok |-> TRUE, p |-> name.p, value |-> Keyword(name.result)]

parse_value(p) ==
    IF eof(p) THEN Panic(p)
    ELSE IF next_char(p) \in Digits
    THEN LET length == parse_number(p) IN
         IF length.ok
         THEN [ok |-> TRUE, p |-> consume_while(length.p, Chars \ {";"}).p,
               value |-> Length(length.number)]
         ELSE Panic(p)
    ELSE IF next_char(p) = "#" THEN parse_color(consume_char(p))
    ELSE LET name == parse_name(p) IN
         [ok |-> TRUE, p |-> name.p, value |-> Keyword(name.result)]

parse_declaration(p) ==
    LET name == parse_name(p)
        colon == Expect(name.p, ":")
        v == parse_value(consume_whitespace(colon.p))
    IN IF colon.ok /\ v.ok
       THEN [ok |-> TRUE, p |-> v.p, declaration |-> Declaration(name.result, v.value)]
       ELSE Panic(p)

CssPanic ==
    /\ css_pc' = "panic"
    /\ UNCHANGED <<css_rules, css_selectors, css_selector, css_declarations>>

\* parse_rules, one turn of its loop up to the first call it makes in
\* parse_rule: parse_selectors, which enters parse_simple_selector.
CssParseRules ==
    /\ css_pc = "parse_rules"
    /\ css_parser' = consume_whitespace(css_parser)
    /\ IF eof(css_parser')
       THEN /\ css_pc' = "returned"
            /\ UNCHANGED <<css_rules, css_selectors, css_selector, css_declarations>>
       ELSE /\ css_pc' = "parse_simple_selector"
            /\ css_selectors' = <<>>
            /\ css_selector' = SimpleSelector(<<>>, <<>>, <<>>)
            /\ UNCHANGED <<css_rules, css_declarations>>
    /\ UNCHANGED <<pipeVars, htmlVars, css_value, paintVars, unitVars>>

\* parse_simple_selector, one turn of its while loop; when the loop is over
\* the selector is returned to parse_selectors, which pushes it.
CssSimpleSelector ==
    /\ css_pc = "parse_simple_selector"
    /\ LET p == consume_whitespace(css_parser)
           returned == /\ css_selectors' = Append(css_selectors, css_selector)
                       /\ css_pc' = "parse_selectors"
                       /\ UNCHANGED <<css_rules, css_selector, css_declarations>>
           stay == /\ css_pc' = "parse_simple_selector"
                   /\ UNCHANGED <<css_rules, css_selectors, css_declarations>>
       IN IF eof(css_parser) THEN UNCHANGED css_parser /\ returned
          ELSE IF eof(p) THEN css_parser' = p /\ CssPanic
          ELSE IF next_char(p) = "#"
          THEN LET name == parse_name(consume_char(p)) IN
               /\ css_parser' = name.p
               /\ css_selector' = [css_selector EXCEPT !.id = <<name.result>>]
               /\ stay
          ELSE IF next_char(p) = "."
          THEN LET name == parse_name(consume_char(p)) IN
               /\ css_parser' = name.p
               /\ css_selector' = [css_selector EXCEPT !.class = Append(@, name.result)]
               /\ stay
          ELSE IF next_char(p) \in {",", "{"} THEN css_parser' = p /\ returned
          ELSE LET name == parse_name(p) IN
               /\ css_parser' = name.p
               /\ css_selector' = [css_selector EXCEPT !.tag_name = <<name.result>>]
               /\ stay
    /\ UNCHANGED <<pipeVars, htmlVars, css_value, paintVars, unitVars>>

\* parse_selectors, the rest of a turn of its loop after the push: on `,`
\* the next turn enters parse_simple_selector; on `{` the selectors are
\* returned to parse_rule, which enters parse_declarations.
CssSelectors ==
    /\ css_pc = "parse_selectors"
    /\ LET p == consume_whitespace(css_parser) IN
       IF eof(p) THEN css_parser' = p /\ CssPanic
       ELSE IF next_char(p) = ","
       THEN /\ css_parser' = consume_whitespace(consume_char(p))
            /\ css_pc' = "parse_simple_selector"
            /\ css_selector' = SimpleSelector(<<>>, <<>>, <<>>)
            /\ UNCHANGED <<css_rules, css_selectors, css_declarations>>
       ELSE IF next_char(p) = "{"
       THEN /\ css_parser' = Expect(p, "{").p
            /\ css_pc' = "parse_declarations"
            /\ css_declarations' = <<>>
            /\ UNCHANGED <<css_rules, css_selectors, css_selector>>
       ELSE css_parser' = p /\ CssPanic
    /\ UNCHANGED <<pipeVars, htmlVars, css_value, paintVars, unitVars>>

\* parse_declarations, one turn of its loop; on `}` the declarations are
\* returned to parse_rule and the rule to parse_rules, which pushes it.
CssDeclarations ==
    /\ css_pc = "parse_declarations"
    /\ LET p == consume_whitespace(css_parser)
           d == parse_declaration(p)
           semicolon == Expect(d.p, ";")
       IN IF eof(p) THEN css_parser' = p /\ CssPanic
          ELSE IF next_char(p) = "}"
          THEN /\ css_parser' = Expect(p, "}").p
               /\ css_rules' = Append(css_rules, Rule(css_selectors, css_declarations))
               /\ css_pc' = "parse_rules"
               /\ UNCHANGED <<css_selectors, css_selector, css_declarations>>
          ELSE IF d.ok /\ semicolon.ok
          THEN /\ css_parser' = semicolon.p
               /\ css_declarations' = Append(css_declarations, d.declaration)
               /\ UNCHANGED <<css_pc, css_rules, css_selectors, css_selector>>
          ELSE css_parser' = p /\ CssPanic
    /\ UNCHANGED <<pipeVars, htmlVars, css_value, paintVars, unitVars>>

(***************************************************************************)
(* layout.rs: build_layout_tree, one activation per frame of the stack.    *)
(* A frame holds the styled node of the call, the box `root` the call is   *)
(* building, and the index of the child the for loop is at.                *)
(***************************************************************************)
BoxTypeOf(style_node) == IF display(style_node) = "Block" THEN "BlockNode" ELSE "InlineNode"

Frame(style_node) ==
    [style_node |-> style_node, next |-> 1,
     root |-> LayoutBoxNew(BoxTypeOf(style_node), <<style_node>>)]

Top == stack[Len(stack)]
SetTop(frame) == [stack EXCEPT ![Len(stack)] = frame]

(***************************************************************************)
(* The inputs.                                                             *)
(***************************************************************************)
Tags == {"div", "p", "span", "h1"}

RECURSIVE TreesOfSize(_)
RECURSIVE ForestsOfSize(_)
TreesOfSize(k) ==
    IF k = 0 THEN {}
    ELSE (IF k = 1 THEN {text(<<"x">>), comment} ELSE {})
         \cup {element(tag, EmptyMap, kids) : tag \in Tags, kids \in ForestsOfSize(k - 1)}

ForestsOfSize(m) ==
    IF m = 0 THEN {<<>>}
    ELSE UNION {{<<t>> \o f : t \in TreesOfSize(k), f \in ForestsOfSize(m - k)} : k \in 1..m}

DomTrees == UNION {TreesOfSize(k) : k \in 1..MaxNodes}

Tag(name) == SimpleSelector(<<name>>, <<>>, <<>>)
IdSel(name) == SimpleSelector(<<>>, <<name>>, <<>>)
ClassSel(name) == SimpleSelector(<<>>, <<>>, <<name>>)

\* h1 { width: 100px; margin: auto; }
SheetS1 ==
    <<Rule(<<Tag("h1")>>,
           <<Declaration("width", Length(Px(100))), Declaration("margin", auto)>>)>>

\* div, p { display: block; } p { height: 20px; }
SheetS2 ==
    <<Rule(<<Tag("div"), Tag("p")>>, <<Declaration("display", Keyword("block"))>>),
      Rule(<<Tag("p")>>, <<Declaration("height", Length(Px(20)))>>)>>

\* Scenario S4, on a div: div { display: block; } div { width: 900px; }
SheetS4 ==
    <<Rule(<<Tag("div")>>, <<Declaration("display", Keyword("block"))>>),
      Rule(<<Tag("div")>>, <<Declaration("width", Length(Px(900)))>>)>>

\* div { display: block; width: 100px; padding-top: 10px; }
\* span { width: 60px; } p { display: block; height: 20px; }
SheetInline ==
    <<Rule(<<Tag("div")>>,
           <<Declaration("display", Keyword("block")), Declaration("width", Length(Px(100))),
             Declaration("padding-top", Length(Px(10)))>>),
      Rule(<<Tag("span")>>, <<Declaration("width", Length(Px(60)))>>),
      Rule(<<Tag("p")>>,
           <<Declaration("display", Keyword("block")),
             Declaration("height", Length(Px(20)))>>)>>

\* div { display: block; } p { display: flex; } span { display: none; }
\* h1 { display: 10px; }
SheetDisplay ==
    <<Rule(<<Tag("div")>>, <<Declaration("display", Keyword("block"))>>),
      Rule(<<Tag("p")>>, <<Declaration("display", Keyword("flex"))>>),
      Rule(<<Tag("span")>>, <<Declaration("display", Keyword("none"))>>),
      Rule(<<Tag("h1")>>, <<Declaration("display", Length(Px(10)))>>)>>

\* div { display: block; } p { display: inline; } span { display: #112233; }
\* h1 { display: none; }
SheetDisplay2 ==
    <<Rule(<<Tag("div")>>, <<Declaration("display", Keyword("block"))>>),
      Rule(<<Tag("p")>>, <<Declaration("display", Keyword("inline"))>>),
      Rule(<<Tag("span")>>, <<Declaration("display", Color(17, 34, 51, 255))>>),
      Rule(<<Tag("h1")>>, <<Declaration("display", Keyword("none"))>>)>>

ScenarioSheets == {SheetS1, SheetS2, SheetInline, SheetDisplay, SheetDisplay2}

\* div { display: block; width: 100px; padding-top: 10px; }
\* h1 { display: block; width: 100px; } span { width: 60px; height: 30px; }
\* p { display: block; height: 20px; }
SheetAnonymous ==
    <<Rule(<<Tag("div")>>,
           <<Declaration("display", Keyword("block")), Declaration("width", Length(Px(100))),
             Declaration("padding-top", Length(Px(10)))>>),
      Rule(<<Tag("h1")>>,
           <<Declaration("display", Keyword("block")),
             Declaration("width", Length(Px(100)))>>),
      Rule(<<Tag("span")>>,
           <<Declaration("width", Length(Px(60))), Declaration("height", Length(Px(30)))>>),
      Rule(<<Tag("p")>>,
           <<Declaration("display", Keyword("block")),
             Declaration("height", Length(Px(20)))>>)>>

\* A div or an h1 with one to three children, each a span, a p, a text or
\* an h1 that holds a span.
AnonymousDocuments ==
    LET Kids == {element("span", EmptyMap, <<>>), element("p", EmptyMap, <<>>),
                 text(<<"x">>),
                 element("h1", EmptyMap, <<element("span", EmptyMap, <<>>)>>)}
    IN {element(tag, EmptyMap, kids) :
           tag \in {"div", "h1"},
           kids \in UNION {[1..n -> Kids] : n \in 1..3}}

Viewport ==
    [DefaultDimensions EXCEPT !.content.width = Px(ViewportWidth),
                              !.content.height = Px(ViewportHeight)]

Opt(S) == {<<>>} \cup {<<v>> : v \in S}
DeclOpt(name, choice) == IF choice = <<>> THEN <<>> ELSE <<Declaration(name, choice[1])>>
Lengths == {Length(Px(n)) : n \in 0..MaxLen}

\* div { display: block; width: ..; margin-left: ..; ... }: every choice of
\* the properties calculate_block_width reads.
WidthSheets ==
    {<<Rule(<<Tag("div")>>,
            <<Declaration("display", Keyword("block"))>>
            \o DeclOpt("width", w) \o DeclOpt("margin-left", ml)
            \o DeclOpt("margin-right", mr) \o DeclOpt("margin", m)
            \o DeclOpt("border-left-width", bl) \o DeclOpt("border-width", b)
            \o DeclOpt("padding-right", pr) \o DeclOpt("padding", pd))>> :
        w \in Opt({auto, Keyword("foo")} \cup Lengths),
        ml \in Opt({auto} \cup Lengths), mr \in Opt({auto} \cup Lengths),
        m \in Opt({auto, Length(Px(1))}),
        bl \in Opt({Length(Px(1))}), b \in Opt({auto}),
        pr \in Opt({Length(Px(1))}), pd \in Opt({Length(Px(MaxLen))})}

ContainingWidths == {Px(0), Px(MaxLen + 1), Px(4 * MaxLen)}

\* The rules drawn for the cascade: every selector list against every
\* declaration list.
CascadeSelectors ==
    {<<Tag("h1")>>, <<IdSel(<<"x">>)>>, <<ClassSel(<<"c">>)>>, <<Tag("p")>>,
     <<Tag("h1"), IdSel(<<"x">>)>>, <<Tag("p"), IdSel(<<"x">>)>>}
CascadeDeclarations ==
    {<<Declaration("width", Length(Px(10)))>>, <<Declaration("width", Length(Px(50)))>>,
     <<Declaration("height", Length(Px(20))), Declaration("width", Length(Px(30)))>>}
CascadeRules == {Rule(sel, decl) : sel \in CascadeSelectors, decl \in CascadeDeclarations}

RECURSIVE SheetsOfLen(_)
SheetsOfLen(n) ==
    IF n = 0 THEN {<<>>}
    ELSE {Append(sheet, rule) : sheet \in SheetsOfLen(n - 1), rule \in CascadeRules}
CascadeSheets == UNION {SheetsOfLen(n) : n \in 1..MaxRules}

\* <h1 id="x" class="c d"></h1>
CascadeElement ==
    element("h1", ("id" :> <<"x">>) @@ ("class" :> <<"c", " ", "d">>), <<>>)

InitScenario ==
    /\ dom \in DomTrees
    /\ style_sheet \in ScenarioSheets
    /\ containing_block = Viewport

InitWidth ==
    /\ dom = element("div", EmptyMap, <<>>)
    /\ \/ /\ style_sheet \in WidthSheets
          /\ containing_block \in
                 {[Viewport EXCEPT !.content.width = w] : w \in ContainingWidths}
       \/ /\ style_sheet = SheetS4
          /\ containing_block = Viewport

InitCascade ==
    /\ dom = CascadeElement
    /\ style_sheet \in CascadeSheets
    /\ containing_block = Viewport

InitAnonymous ==
    /\ dom \in AnonymousDocuments
    /\ style_sheet = SheetAnonymous
    /\ containing_block = Viewport

\* The parsers have returned (lib.rs runs them before style_tree); the
\* pipeline has not begun.
HtmlIdle ==
    /\ html_parser = [pos |-> 0, input |-> <<>>]
    /\ html_stack = <<>>
    /\ html_state = "idle"
    /\ html_root = <<>>
    /\ html_log = <<>>

CssIdle ==
    /\ css_parser = [pos |-> 0, input |-> <<>>]
    /\ css_pc = "idle"
    /\ css_rules = <<>>
    /\ css_selectors = <<>>
    /\ css_selector = SimpleSelector(<<>>, <<>>, <<>>)
    /\ css_declarations = <<>>
    /\ css_value = <<>>

PaintIdle ==
    /\ paint_bounds = Rect(0, 0, 0, 0)
    /\ paint_list = <<>>
    /\ paint_next = 1
    /\ canvas = <<>>
    /\ paint_pc = "idle"

MatchIdle ==
    /\ match_elem = comment
    /\ match_selector = <<>>
    /\ match_result = <<>>
    /\ match_sheet = <<>>
    /\ match_next = 1
    /\ matched = <<>>
    /\ match_pc = "idle"

InlineIdle ==
    /\ inline_box = <<>>
    /\ inline_containing_block = DefaultDimensions
    /\ inline_next = 1

UnitIdle == MatchIdle /\ InlineIdle

PipeIdle ==
    /\ dom = comment
    /\ style_sheet = <<>>
    /\ containing_block = Viewport
    /\ style_root = <<>>
    /\ stack = <<>>
    /\ layout_root = <<>>
    /\ stage = "idle"

Init ==
    /\ InitScenario \/ InitWidth \/ InitCascade \/ InitAnonymous
    /\ style_root = <<>>
    /\ stack = <<>>
    /\ layout_root = <<>>
    /\ stage = "parsed"
    /\ HtmlIdle
    /\ CssIdle
    /\ PaintIdle
    /\ UnitIdle

(***************************************************************************)
(* The pipeline of lib.rs::run after the two parsers.                      *)
(***************************************************************************)
\* style::style_tree(&root_node, &stylesheet)
StyleTree ==
    /\ stage = "parsed"
    /\ IF style_tree_panics(dom)
       THEN stage' = "style_panic" /\ UNCHANGED style_root
       ELSE stage' = "styled" /\ style_root' = <<style_tree(dom, style_sheet)>>
    /\ UNCHANGED <<dom, style_sheet, containing_block, stack, layout_root>>
    /\ UNCHANGED <<htmlVars, cssVars, paintVars, unitVars>>

\* layout_tree: the containing block's height is reset and build_layout_tree
\* is entered for the root, which panics on display: none.
BuildStart ==
    /\ stage = "styled"
    /\ containing_block' = [containing_block EXCEPT !.content.height = 0]
    /\ IF display(style_root[1]) = "None"
       THEN stage' = "layout_panic" /\ UNCHANGED stack
       ELSE stage' = "building" /\ stack' = <<Frame(style_root[1])>>
    /\ UNCHANGED <<dom, style_sheet, style_root, layout_root>>
    /\ UNCHANGED <<htmlVars, cssVars, paintVars, unitVars>>

\* One turn of the for loop of build_layout_tree up to the recursive call:
\* a display-none child is skipped; for an inline child the receiver
\* root.get_inline_container() is evaluated before the call.
BuildChild ==
    /\ stage = "building"
    /\ Top.next <= Len(Top.style_node.children)
    /\ LET child == Top.style_node.children[Top.next] IN
       IF display(child) = "Block"
       THEN stack' = Append(stack, Frame(child))
       ELSE IF display(child) = "Inline"
       THEN stack' = Append(SetTop([Top EXCEPT !.root = GetInlineContainer(@)]),
                            Frame(child))
       ELSE stack' = SetTop([Top EXCEPT !.next = @ + 1])
    /\ UNCHANGED <<dom, style_sheet, containing_block, style_root, layout_root, stage>>
    /\ UNCHANGED <<htmlVars, cssVars, paintVars, unitVars>>

\* The for loop of an activation is over: it returns its box, which the
\* caller pushes (or layout_tree receives).
BuildReturn ==
    /\ stage = "building"
    /\ Top.next > Len(Top.style_node.children)
    /\ IF Len(stack) = 1
       THEN /\ layout_root' = <<Top.root>>
            /\ stack' = <<>>
            /\ stage' = "built"
       ELSE LET caller == stack[Len(stack) - 1]
                pushed == IF display(Top.style_node) = "Block"
                          THEN [caller.root EXCEPT !.children = Append(@, Top.root)]
                          ELSE PushInlineContainer(caller.root, Top.root)
            IN /\ stack' = [SubSeq(stack, 1, Len(stack) - 1) EXCEPT
                               ![Len(stack) - 1] =
                                   [caller EXCEPT !.root = pushed, !.next = @ + 1]]
               /\ UNCHANGED <<layout_root, stage>>
    /\ UNCHANGED <<dom, style_sheet, containing_block, style_root>>
    /\ UNCHANGED <<htmlVars, cssVars, paintVars, unitVars>>

\* layout_tree: root_box.layout(containing_block)
Layout ==
    /\ stage = "built"
    /\ layout_root' = <<layout(layout_root[1], containing_block)>>
    /\ stage' = "done"
    /\ UNCHANGED <<dom, style_sheet, containing_block, style_root, stack>>
    /\ UNCHANGED <<htmlVars, cssVars, paintVars, unitVars>>

Next == StyleTree \/ BuildStart \/ BuildChild \/ BuildReturn \/ Layout

Spec == Init /\ [][Next]_vars

(***************************************************************************)
(* html::parse on its own.  A source is put together from a few pieces    *)
(* that open and close elements, hold text, a comment and attributes, well *)
(* formed and not.                                                         *)
(***************************************************************************)
HtmlTokens ==
    { <<"<", "a", ">">>, <<"<", "/", "a", ">">>, <<"<", "b", ">">>, <<"<", "/", "b", ">">>,
      <<"x">>, <<" ">>, <<"<", "!", "c", ">">>, <<"<", "a", " ", "i", "=", "'", "1", "'", ">">>,
      <<"<", "a", " ", "i", ">">>, <<"<", "a", " ", "i", "=", "1", ">">>, <<"<">>,
      <<"<", "/", "a">> }

RECURSIVE Sources(_, _)
Sources(tokens, n) ==
    IF n = 0 THEN {<<>>}
    ELSE LET shorter == Sources(tokens, n - 1) IN
         shorter \cup {s \o t : s \in shorter, t \in tokens}

HtmlInit ==
    /\ html_parser \in {[pos |-> 0, input |-> s] : s \in Sources(HtmlTokens, MaxHtmlTokens)}
    /\ html_stack = <<HtmlFrame(<<>>, EmptyMap, 0)>>
    /\ html_state = "running"
    /\ html_root = <<>>
    /\ html_log = <<>>
    /\ PipeIdle
    /\ CssIdle
    /\ PaintIdle
    /\ UnitIdle

HtmlNext == HtmlComment \/ HtmlText \/ HtmlOpenElement \/ HtmlCloseElement \/ HtmlReturn

SpecHtml == HtmlInit /\ [][HtmlNext]_vars

(***************************************************************************)
(* css::parse on its own.                                                  *)
(***************************************************************************)
CssTokens ==
    { <<"a">>, <<"#", "b">>, <<".", "c">>, <<",">>, <<"{">>, <<"}">>, <<" ">>, <<">">>,
      <<"w", ":", "1", ";">>, <<"w", ":", "x">>, <<"c", ":", "#", "1", "a", "b", "c", "1", "1", ";">> }

CssStart(sources) ==
    /\ css_parser \in {[pos |-> 0, input |-> s] : s \in sources}
    /\ css_pc = "parse_rules"
    /\ css_rules = <<>>
    /\ css_selectors = <<>>
    /\ css_selector = SimpleSelector(<<>>, <<>>, <<>>)
    /\ css_declarations = <<>>
    /\ css_value = <<>>
    /\ PipeIdle
    /\ HtmlIdle
    /\ PaintIdle
    /\ UnitIdle

CssInit == CssStart(Sources(CssTokens, MaxCssTokens))

CssNext == CssParseRules \/ CssSimpleSelector \/ CssSelectors \/ CssDeclarations

SpecCss == CssInit /\ [][CssNext]_vars

(***************************************************************************)
(* css::Parser::parse_value on its own, as the tests of css.rs call it: on *)
(* a parser that stands at the beginning of the value.  The numbers drawn  *)
(* are whole or half pixels.                                               *)
(***************************************************************************)
ValueTokens ==
    { <<"1", "0">>, <<"5">>, <<".", "5">>, <<".">>, <<"p", "x">>, <<"f", "o", "o">>, <<";">>,
      <<"#">>, <<"#", "8", "1", "2", "d", "d", "3">>, <<"#", "8", "1">>, <<"2", "d", "d", "3">>,
      <<"a", "u", "t", "o">>, <<"-">>, <<" ">>, <<"%">>, <<"(">>, <<"g">> }

\* The length of the longest beginning of str made of characters of set.
RunLength(str, set) ==
    CHOOSE n \in 0..Len(str) :
        /\ \A i \in 1..n : str[i] \in set
        /\ n = Len(str) \/ str[n + 1] \notin set

LeadingNumber(str) == SubSeq(str, 1, RunLength(str, Digits \cup {"."}))
Points(str) == Cardinality({k \in DOMAIN str : str[k] = "."})

WholeOrHalf(str) ==
    LET run == LeadingNumber(str) IN
    Points(run) = 1 =>
        LET point == CHOOSE k \in DOMAIN run : run[k] = "." IN
        /\ \A k \in (point + 2)..Len(run) : run[k] = "0"
        /\ point < Len(run) => run[point + 1] \in {"0", "5"}

ValueSources == {str \in Sources(ValueTokens, MaxValueTokens) : WholeOrHalf(str)}

CssValueInit ==
    /\ css_parser \in {[pos |-> 0, input |-> str] : str \in ValueSources}
    /\ css_pc = "parse_value"
    /\ css_rules = <<>>
    /\ css_selectors = <<>>
    /\ css_selector = SimpleSelector(<<>>, <<>>, <<>>)
    /\ css_declarations = <<>>
    /\ css_value = <<>>
    /\ PipeIdle
    /\ HtmlIdle
    /\ PaintIdle
    /\ UnitIdle

CssParseValue ==
    /\ css_pc = "parse_value"
    /\ LET v == parse_value(css_parser) IN
       IF v.ok
       THEN /\ css_parser' = v.p
            /\ css_value' = <<v.value>>
            /\ css_pc' = "value_returned"
       ELSE /\ css_pc' = "panic"
            /\ UNCHANGED <<css_parser, css_value>>
    /\ UNCHANGED <<css_rules, css_selectors, css_selector, css_declarations>>
    /\ UNCHANGED <<pipeVars, htmlVars, paintVars, unitVars>>

SpecValue == CssValueInit /\ [][CssParseValue]_vars

(***************************************************************************)
(* css::parse on a rule `a{...}` whose declarations are drawn from:        *)
(*   width:1px;  width:50%;  margin:-5px;  color:rgb(1,2,3);  color:#fff;  *)
(*   zoom:1;                                                               *)
(***************************************************************************)
DeclarationTokens ==
    { <<"w", "i", "d", "t", "h", ":", "1", "p", "x", ";">>,
      <<"w", "i", "d", "t", "h", ":", "5", "0", "%", ";">>,
      <<"m", "a", "r", "g", "i", "n", ":", "-", "5", "p", "x", ";">>,
      <<"c", "o", "l", "o", "r", ":", "r", "g", "b", "(", "1", ",", "2", ",", "3", ")", ";">>,
      <<"c", "o", "l", "o", "r", ":", "#", "f", "f", "f", ";">>,
      <<"z", "o", "o", "m", ":", "1", ";">> }

DeclarationSources ==
    {<<"a", "{">> \o d \o <<"}">> : d \in Sources(DeclarationTokens, MaxDeclarations)}

CssInitDeclarations == CssStart(DeclarationSources)

SpecDeclarations == CssInitDeclarations /\ [][CssNext]_vars

\* The parser runs while it can.
CssInitFair == CssStart(Sources(CssTokens, MaxFairCssTokens))

FairSpecCss == CssInitFair /\ [][CssNext]_vars /\ WF_vars(CssNext)

(***************************************************************************)
(* painting.rs: the display list and the canvas.  A css::Color is its four *)
(* bytes <<r, g, b, a>>; a DisplayCommand is SolidColor(color, rect) or    *)
(* Text(text, color, rect).                                                *)
(***************************************************************************)
SolidColor(color, rect) ==
    [command |-> "SolidColor", text |-> "", color |-> color, rect |-> rect]
Text(data, color, rect) ==
    [command |-> "Text", text |-> data, color |-> color, rect |-> rect]

\* The colour render_text gives every Text command.
TextColor == <<129, 45, 211, 255>>

\* StyledNode::text, which get_text calls: style.rs does not hold it.  It is
\* taken as the documentation of the engine has it: the payload of a styled
\* node that is a text node, and nothing for any other node.
styled_node_text(style) ==
    IF style.node.node_type = "Text" THEN <<style.node.data>> ELSE <<>>

get_text(layout_box) ==
    IF layout_box.box_type = "InlineNode"
    THEN styled_node_text(get_style_node(layout_box))
    ELSE <<>>

get_color(layout_box, name) ==
    IF layout_box.box_type \in {"BlockNode", "InlineNode"}
    THEN LET v == value(get_style_node(layout_box), name)
         IN IF v # <<>> /\ v[1].type = "Color" THEN <<v[1].rgba>> ELSE <<>>
    ELSE <<>>

render_background(list, layout_box) ==
    LET color == get_color(layout_box, "background")
    IN IF color # <<>>
       THEN Append(list, SolidColor(color[1], border_box(layout_box.dimensions)))
       ELSE list

render_borders(list, layout_box) ==
    LET color == get_color(layout_box, "border-color")
        d == layout_box.dimensions
        bb == border_box(d)
    IN IF color = <<>> THEN list
       ELSE list \o
            << SolidColor(color[1], Rect(bb.x, bb.y, d.border.left, bb.height)),
               SolidColor(color[1],
                          Rect(bb.x + bb.width - d.border.right, bb.y,
                               d.border.right, bb.height)),
               SolidColor(color[1], Rect(bb.x, bb.y, bb.width, d.border.top)),
               SolidColor(color[1],
                          Rect(bb.x, bb.y + bb.height - d.border.bottom,
                               bb.width, d.border.bottom)) >>

render_text(list, layout_box) ==
    LET data == get_text(layout_box)
    IN IF data # <<>>
       THEN Append(list, Text(data[1], TextColor, border_box(layout_box.dimensions)))
       ELSE list

RECURSIVE render_layout_box(_, _)
RECURSIVE RenderChildren(_, _, _)

\* A variant of render_layout_box that renders the children of a box before
\* the box.
RECURSIVE RenderLayoutBoxChildrenFirst(_, _)
RenderLayoutBoxChildrenFirst(list, layout_box) ==
    LET below == RenderChildren(list, layout_box.children, 1)
    IN render_text(render_borders(render_background(below, layout_box), layout_box),
                   layout_box)

render_layout_box(list, layout_box) ==
    LET own == render_text(render_borders(render_background(list, layout_box),
                                          layout_box),
                           layout_box)
    IN RenderChildren(own, layout_box.children, 1)

\* for child in &layout_box.children, from the i-th child on.
RenderChildren(list, children, i) ==
    IF i > Len(children) THEN list
    ELSE RenderChildren(render_layout_box(list, children[i]), children, i + 1)

build_display_list(layout_box) == render_layout_box(<<>>, layout_box)

White == <<255, 255, 255, 255>>

\* f32 as usize: the fraction is dropped and a negative value gives 0.
AsUsize(f) == IF f < 0 THEN 0 ELSE Half(f)

\* f32::clamp(min, max)
Clamp(f, min, max) == IF f < min THEN min ELSE IF f > max THEN max ELSE f

\* Canvas::new
CanvasNew(width, height) ==
    [pixels |-> [i \in 1..(width * height) |-> White], width |-> width,
     height |-> height]

\* The ranges x0..x1 and y0..y1 of paint_item.
ClipRange(c, rect) ==
    [x0 |-> AsUsize(Clamp(rect.x, 0, Px(c.width))),
     y0 |-> AsUsize(Clamp(rect.y, 0, Px(c.height))),
     x1 |-> AsUsize(Clamp(rect.x + rect.width, 0, Px(c.width))),
     y1 |-> AsUsize(Clamp(rect.y + rect.height, 0, Px(c.height)))]

\* A variant of the ranges of paint_item that does not clamp the rectangle.
RangeUnclamped(c, rect) ==
    [x0 |-> AsUsize(rect.x), y0 |-> AsUsize(rect.y),
     x1 |-> AsUsize(rect.x + rect.width), y1 |-> AsUsize(rect.y + rect.height)]

\* The indices into pixels that paint_item writes: x + y * self.width.
Writes(c, r) ==
    {x + y * c.width : x \in r.x0..(r.x1 - 1), y \in r.y0..(r.y1 - 1)}

\* Canvas::paint_item: ok is FALSE when an index is out of the Vec, where
\* the write panics; pixels[i + 1] is the pixel of index i.
PaintItemUnclamped(c, item) ==
    LET writes == Writes(c, RangeUnclamped(c, item.rect))
    IN [ok |-> \A i \in writes : i < Len(c.pixels),
        canvas |-> [c EXCEPT !.pixels =
                        [i \in DOMAIN c.pixels |->
                            IF i - 1 \in writes THEN item.color ELSE c.pixels[i]]]]

paint_item(c, item) ==
    LET writes == Writes(c, ClipRange(c, item.rect))
    IN [ok |-> \A i \in writes : i < Len(c.pixels),
        canvas |-> [c EXCEPT !.pixels =
                        [i \in DOMAIN c.pixels |->
                            IF i - 1 \in writes THEN item.color ELSE c.pixels[i]]]]

(***************************************************************************)
(* painting::paint on its own: the for loop takes one item at a step.      *)
(***************************************************************************)
\* let display_list = build_display_list(layout_root); let mut canvas = ...
PaintStart ==
    /\ paint_pc = "called"
    /\ paint_list' = build_display_list(layout_root[1])
    /\ canvas' = <<CanvasNew(AsUsize(paint_bounds.width), AsUsize(paint_bounds.height))>>
    /\ paint_next' = 1
    /\ paint_pc' = "painting"
    /\ UNCHANGED <<pipeVars, htmlVars, cssVars, unitVars, paint_bounds>>

\* canvas.paint_item(&item)
PaintItem ==
    /\ paint_pc = "painting"
    /\ paint_next <= Len(paint_list)
    /\ LET r == paint_item(canvas[1], paint_list[paint_next])
       IN IF r.ok
          THEN /\ canvas' = <<r.canvas>>
               /\ paint_next' = paint_next + 1
               /\ UNCHANGED paint_pc
          ELSE /\ paint_pc' = "paint_panic"
               /\ UNCHANGED <<canvas, paint_next>>
    /\ UNCHANGED <<pipeVars, htmlVars, cssVars, unitVars, paint_bounds, paint_list>>

\* paint returns canvas
PaintReturn ==
    /\ paint_pc = "painting"
    /\ paint_next > Len(paint_list)
    /\ paint_pc' = "painted"
    /\ UNCHANGED <<pipeVars, htmlVars, cssVars, unitVars, paint_bounds, paint_list,
                   paint_next, canvas>>

\* The colours of the boxes drawn.
ColorA == <<17, 34, 51, 255>>
ColorB == <<0, 204, 255, 255>>
ColorC == <<170, 187, 204, 255>>
ColorD == <<1, 2, 3, 255>>

\* The styled nodes of the boxes drawn: an element with a background and a
\* border colour, one with a keyword for a background and a border colour,
\* one with a background colour alone, and a text node.
PaintedA ==
    StyledNode(element("div", EmptyMap, <<>>),
               ("background" :> Color(17, 34, 51, 255))
               @@ ("border-color" :> Color(0, 204, 255, 255)), <<>>)
PaintedB ==
    StyledNode(element("p", EmptyMap, <<>>),
               ("background" :> Keyword("red"))
               @@ ("border-color" :> Color(170, 187, 204, 255)), <<>>)
PaintedC ==
    StyledNode(element("span", EmptyMap, <<>>),
               ("background" :> Color(1, 2, 3, 255)), <<>>)
PaintedText == StyledNode(text("hi"), EmptyMap, <<>>)

\* The dimensions of the boxes drawn, before a canvas of 3 by 2 pixels at
\* most: a border box over the two columns on the left, one that begins left
\* of and above the canvas at half pixels, one that leaves it to the right
\* and below, and one of a negative width.
DimensionsA ==
    [content |-> Rect(Px(1), Px(1), 0, 0), padding |-> EdgeSizes(0, 0, 0, 0),
     border |-> EdgeSizes(Px(1), Px(1), Px(1), Px(1)), margin |-> EdgeSizes(0, 0, 0, 0)]
DimensionsB ==
    [content |-> Rect(0 - Px(1), 0 - 1, 5, Px(2)), padding |-> EdgeSizes(0, 0, 0, 0),
     border |-> EdgeSizes(0, 0, 0, 0), margin |-> EdgeSizes(0, 0, 0, 0)]
DimensionsC ==
    [content |-> Rect(Px(2), Px(1), Px(3), Px(2)), padding |-> EdgeSizes(0, 0, 0, 0),
     border |-> EdgeSizes(1, Px(2), Px(1), Px(1)), margin |-> EdgeSizes(0, 0, 0, 0)]
DimensionsD ==
    [content |-> Rect(Px(2), 0, 0 - Px(1), Px(2)), padding |-> EdgeSizes(0, 0, 0, 0),
     border |-> EdgeSizes(0, 0, 0, 0), margin |-> EdgeSizes(0, 0, 0, 0)]

PaintBox(box_type, node, dimensions, children) ==
    [dimensions |-> dimensions, box_type |-> box_type, node |-> node,
     children |-> children]

\* The boxes drawn, without their children.
PaintKinds ==
    { PaintBox("BlockNode", <<PaintedA>>, DimensionsA, <<>>),
      PaintBox("InlineNode", <<PaintedText>>, DimensionsB, <<>>),
      PaintBox("AnonymousBlock", <<>>, DimensionsC, <<>>),
      PaintBox("BlockNode", <<PaintedB>>, DimensionsC, <<>>),
      PaintBox("InlineNode", <<PaintedC>>, DimensionsD, <<>>),
      PaintBox("BlockNode", <<PaintedText>>, DimensionsB, <<>>) }

\* The box trees of n boxes, and the sequences of box trees of n boxes in all.
RECURSIVE PaintTrees(_)
RECURSIVE PaintForests(_)
PaintTrees(n) ==
    {[k EXCEPT !.children = f] : k \in PaintKinds, f \in PaintForests(n - 1)}
PaintForests(n) ==
    IF n = 0 THEN {<<>>}
    ELSE UNION {{<<t>> \o f : t \in PaintTrees(m), f \in PaintForests(n - m)} : m \in 1..n}

\* Box trees in which a first child with a child of its own is followed by a
\* second child.
PaintNested ==
    {[r EXCEPT !.children = <<[a EXCEPT !.children = <<c>>], b>>] :
        r \in {k \in PaintKinds : k.box_type = "BlockNode"},
        a \in {k \in PaintKinds : k.box_type = "InlineNode"},
        c \in PaintKinds, b \in PaintKinds}

\* The bounds drawn: 3 by 2 pixels, 2.5 by 1.5 pixels, and an empty canvas of
\* a negative width.
PaintBounds ==
    {Rect(0, 0, Px(3), Px(2)), Rect(0, 0, 5, 3), Rect(0, 0, 0 - Px(1), Px(2))}

PaintInit ==
    /\ dom = comment
    /\ style_sheet = <<>>
    /\ containing_block = Viewport
    /\ style_root = <<>>
    /\ stack = <<>>
    /\ layout_root \in {<<t>> : t \in UNION {PaintTrees(n) : n \in 1..MaxBoxes}
                                        \cup PaintNested}
    /\ stage = "idle"
    /\ HtmlIdle
    /\ CssIdle
    /\ UnitIdle
    /\ paint_bounds \in PaintBounds
    /\ paint_list = <<>>
    /\ paint_next = 1
    /\ canvas = <<>>
    /\ paint_pc = "called"

PaintNext == PaintStart \/ PaintItem \/ PaintReturn

SpecPaint == PaintInit /\ [][PaintNext]_vars

(***************************************************************************)
(* style::matches_simple_selectors on its own, on an element and a         *)
(* selector drawn from: tag names h1 and p; id attributes x and y; class   *)
(* attributes ``, `c`, `c d`, `d ` and `cd`; selector classes c, d and the *)
(* empty name that `.` followed by no identifier gives.                    *)
(***************************************************************************)
MatchTags == {"h1", "p"}
MatchIds == {<<"x">>, <<"y">>}
ClassAttributes == {<<>>, <<"c">>, <<"c", " ", "d">>, <<"d", " ">>, <<"c", "d">>}
ClassNames == {<<"c">>, <<"d">>, <<>>}

ElementWith(tag_name, id_, class) ==
    element(tag_name,
            [n \in (IF id_ = <<>> THEN {} ELSE {"id"})
                   \cup (IF class = <<>> THEN {} ELSE {"class"}) |->
                IF n = "id" THEN id_[1] ELSE class[1]],
            <<>>)

MatchElements ==
    {ElementWith(t, i, c) : t \in MatchTags, i \in Opt(MatchIds), c \in Opt(ClassAttributes)}

RECURSIVE ClassLists(_)
ClassLists(n) ==
    IF n = 0 THEN {<<>>}
    ELSE {Append(l, c) : l \in ClassLists(n - 1), c \in ClassNames}

DrawnSelectors ==
    {SimpleSelector(t, i, c) :
        t \in Opt(MatchTags), i \in Opt(MatchIds),
        c \in UNION {ClassLists(n) : n \in 0..MaxClasses}}

SelectorInit ==
    /\ PipeIdle
    /\ HtmlIdle
    /\ CssIdle
    /\ PaintIdle
    /\ InlineIdle
    /\ match_elem \in MatchElements
    /\ match_selector \in {<<s>> : s \in DrawnSelectors}
    /\ match_result = <<>>
    /\ match_sheet = <<>>
    /\ match_next = 1
    /\ matched = <<>>
    /\ match_pc = "called"

MatchSelector ==
    /\ match_pc = "called"
    /\ match_selector # <<>>
    /\ match_result' = <<matches_simple_selectors(match_elem, match_selector[1])>>
    /\ match_pc' = "returned"
    /\ UNCHANGED <<pipeVars, htmlVars, cssVars, paintVars, inlineVars, match_elem,
                   match_selector, match_sheet, match_next, matched>>

SpecSelector == SelectorInit /\ [][MatchSelector]_vars

(***************************************************************************)
(* style::match_rules on its own, one rule of the stylesheet at a step, on *)
(* <h1 id="x" class="c d">, <h1> or <p class="c"> and a stylesheet whose   *)
(* rules have the selectors h1, #x, .c, h1#x.c and the selector of no tag, *)
(* id or class.                                                            *)
(***************************************************************************)
RuleElements ==
    {ElementWith("h1", <<<<"x">>>>, <<<<"c", " ", "d">>>>), ElementWith("h1", <<>>, <<>>),
     ElementWith("p", <<>>, <<<<"c">>>>)}

RuleSelectors ==
    {SimpleSelector(<<>>, <<>>, <<>>), Tag("h1"), IdSel(<<"x">>), ClassSel(<<"c">>),
     SimpleSelector(<<"h1">>, <<<<"x">>>>, <<<<"c">>>>)}

RECURSIVE SelectorLists(_)
SelectorLists(n) ==
    IF n = 0 THEN {<<>>}
    ELSE {Append(l, s) : l \in SelectorLists(n - 1), s \in RuleSelectors}

DrawnRules == {Rule(l, <<>>) : l \in UNION {SelectorLists(n) : n \in 1..MaxSelectors}}

RECURSIVE RuleLists(_)
RuleLists(n) ==
    IF n = 0 THEN {<<>>}
    ELSE {Append(l, r) : l \in RuleLists(n - 1), r \in DrawnRules}

MatchInit ==
    /\ PipeIdle
    /\ HtmlIdle
    /\ CssIdle
    /\ PaintIdle
    /\ InlineIdle
    /\ match_elem \in RuleElements
    /\ match_selector = <<>>
    /\ match_result = <<>>
    /\ match_sheet \in UNION {RuleLists(n) : n \in 0..MaxSheetRules}
    /\ match_next = 1
    /\ matched = <<>>
    /\ match_pc = "called"

\* filter_map(|rule| match_rule(elem, rule)), one rule
MatchRule ==
    /\ match_pc \in {"called", "matching"}
    /\ match_selector = <<>>
    /\ match_next <= Len(match_sheet)
    /\ matched' = matched \o match_rule(match_elem, match_sheet[match_next])
    /\ match_next' = match_next + 1
    /\ match_pc' = "matching"
    /\ UNCHANGED <<pipeVars, htmlVars, cssVars, paintVars, inlineVars, match_elem,
                   match_selector, match_result, match_sheet>>

\* collect()
MatchReturn ==
    /\ match_pc \in {"called", "matching"}
    /\ match_selector = <<>>
    /\ match_next > Len(match_sheet)
    /\ match_pc' = "returned"
    /\ UNCHANGED <<pipeVars, htmlVars, cssVars, paintVars, inlineVars, match_elem,
                   match_selector, match_result, match_sheet, match_next, matched>>

MatchNext == MatchRule \/ MatchReturn

SpecMatch == MatchInit /\ [][MatchNext]_vars

(***************************************************************************)
(* layout::LayoutBox::layout_inline_children on its own, one child at a    *)
(* step.  The container is an Anonymous box or the Inline box of a span of *)
(* width 60, as layout_anonymous_block and layout_inline have it when they *)
(* call layout_inline_children; its children are the Inline boxes of spans *)
(* of width 60 and 120 and of a text; the containing block begins at y = 0 *)
(* or y = 10 and is 100 or ViewportWidth wide.                             *)
(***************************************************************************)
InlineStyles ==
    {StyledNode(element("span", EmptyMap, <<>>),
                ("width" :> Length(Px(60))) @@ ("height" :> Length(Px(30))), <<>>),
     StyledNode(element("span", EmptyMap, <<>>), ("width" :> Length(Px(120))), <<>>),
     StyledNode(text(<<"x">>), EmptyMap, <<>>)}

InlineChildren ==
    UNION {[1..n -> {LayoutBoxNew("InlineNode", <<style>>) : style \in InlineStyles}] :
              n \in 1..MaxInlineChildren}

InlineContainingBlocks ==
    {[DefaultDimensions EXCEPT !.content = Rect(0, y, w, h)] :
        y \in {0, Px(10)}, w \in {Px(100), Px(ViewportWidth)}, h \in {0, Px(20)}}

\* The container when layout_inline_children is called on it.
InlineContainers(containing_block_) ==
    {calculate_anonymous_position(
         [LayoutBoxNew("AnonymousBlock", <<>>) EXCEPT !.children = kids],
         containing_block_) : kids \in InlineChildren}
    \cup
    {calculate_block_height(
         calculate_inline_width(
             calculate_inline_position(
                 calculate_position_by_styles(
                     [LayoutBoxNew("InlineNode",
                                   <<StyledNode(element("span", EmptyMap, <<>>),
                                                ("width" :> Length(Px(60))), <<>>)>>)
                      EXCEPT !.children = kids]),
                 containing_block_))) : kids \in InlineChildren}

InlineInit ==
    /\ PipeIdle
    /\ HtmlIdle
    /\ CssIdle
    /\ PaintIdle
    /\ MatchIdle
    /\ inline_containing_block \in InlineContainingBlocks
    /\ inline_box \in {<<box>> : box \in InlineContainers(inline_containing_block)}
    /\ inline_next = 1

\* for child in &mut self.children, one turn
InlineChild ==
    /\ inline_box # <<>>
    /\ inline_next <= Len(inline_box[1].children)
    /\ inline_box' = <<LayoutInlineChild(inline_box[1], inline_containing_block, inline_next)>>
    /\ inline_next' = inline_next + 1
    /\ UNCHANGED <<pipeVars, htmlVars, cssVars, paintVars, matchVars, inline_containing_block>>

SpecInline == InlineInit /\ [][InlineChild]_vars

(***************************************************************************)
(* What the properties below speak of.                                     *)
(***************************************************************************)
RECURSIVE Boxes(_)
Boxes(box) == {box} \cup UNION {Boxes(box.children[i]) : i \in DOMAIN box.children}

RECURSIVE StyledNodes(_)
StyledNodes(node) ==
    {node} \cup UNION {StyledNodes(node.children[i]) : i \in DOMAIN node.children}

IsAnonymous(box) == box.box_type = "AnonymousBlock"

\* The boxes under construction and the finished tree.
BoxesInHand == {stack[i].root : i \in DOMAIN stack} \cup {layout_root[i] : i \in DOMAIN layout_root}

RECURSIVE AnonymousWellPlaced(_, _)
AnonymousWellPlaced(box, parent_type) ==
    /\ IsAnonymous(box) => parent_type = "BlockNode"
    /\ \A i \in 1..(Len(box.children) - 1) :
           ~(IsAnonymous(box.children[i]) /\ IsAnonymous(box.children[i + 1]))
    /\ \A i \in DOMAIN box.children : AnonymousWellPlaced(box.children[i], box.box_type)

\* C1: at every point of build_layout_tree (after each child is appended) and
\* in the tree layout_tree returns, no box has two adjacent Anonymous
\* children, and every Anonymous box is a child of a Block box, never of an
\* Inline or Anonymous box and never a root.
C1_AnonymousUniqueness == \A box \in BoxesInHand : AnonymousWellPlaced(box, "Root")

\* C1's case: a Block box under construction whose inline, display-none and
\* inline children have all been handled, the two inline ones sharing the
\* one Anonymous box.
C1_Witness ==
    /\ stage = "building"
    /\ \E i \in DOMAIN stack :
          LET f == stack[i] IN
          /\ f.root.box_type = "BlockNode"
          /\ Len(f.style_node.children) = 3
          /\ f.next = 4
          /\ display(f.style_node.children[1]) = "Inline"
          /\ display(f.style_node.children[2]) = "None"
          /\ display(f.style_node.children[3]) = "Inline"
          /\ Len(f.root.children) = 1
          /\ IsAnonymous(f.root.children[1])
          /\ Len(f.root.children[1].children) = 2

HorizontalSum(d) ==
    d.margin.left + d.border.left + d.padding.left + d.content.width
    + d.padding.right + d.border.right + d.margin.right

WidthNotAuto(box) ==
    /\ box.box_type = "BlockNode"
    /\ value(get_style_node(box), "width") \notin {<<>>, <<auto>>}

\* C2: after layout, for every Block box whose width is not auto (the root,
\* laid out in containing_block, and every Block child of a Block box, laid
\* out in that box once its width was set), the left and right margins,
\* borders and paddings and the content width add up to the content width of
\* the containing block.
C2_WidthConservation ==
    stage = "done" =>
        /\ WidthNotAuto(layout_root[1]) =>
               HorizontalSum(layout_root[1].dimensions) = containing_block.content.width
        /\ \A b \in Boxes(layout_root[1]) :
               b.box_type = "BlockNode" =>
                   \A i \in DOMAIN b.children :
                       WidthNotAuto(b.children[i]) =>
                           HorizontalSum(b.children[i].dimensions)
                           = b.dimensions.content.width

\* C2's case: the over-constrained one: a width that is a length, and margins,
\* borders and paddings which with it exceed the containing width.
C2_Witness ==
    /\ stage = "done"
    /\ WidthNotAuto(layout_root[1])
    /\ value(get_style_node(layout_root[1]), "width")[1].type = "Length"
    /\ value(get_style_node(layout_root[1]), "margin-left") = <<auto>>
    /\ layout_root[1].dimensions.border.left > 0
    /\ layout_root[1].dimensions.margin.right < 0

Bottom(rect) == rect.y + rect.height

MarginBoxHeights(children) ==
    SumSeq([i \in DOMAIN children |-> margin_box(children[i].dimensions).height])

HasExplicitHeight(box) ==
    LET h == value(get_style_node(box), "height") IN h # <<>> /\ h[1].type = "Length"

\* C3: after layout, in every Block box each child's content.y is at or below
\* the bottom edge of the margin box of the child before it, and a Block box
\* with no explicit height has for content.height the sum of its children's
\* margin-box heights.
C3_VerticalStacking ==
    stage = "done" =>
        \A b \in Boxes(layout_root[1]) :
            b.box_type = "BlockNode" =>
                /\ \A i \in 2..Len(b.children) :
                       b.children[i].dimensions.content.y
                       >= Bottom(margin_box(b.children[i - 1].dimensions))
                /\ ~HasExplicitHeight(b) =>
                       b.dimensions.content.height = MarginBoxHeights(b.children)

\* The matched rules of element elem, by their place in the stylesheet, and
\* the declarations of a name among them, <<rule, declaration>>.
Matched(elem, sheet) == {i \in DOMAIN sheet : match_rule(elem, sheet[i]) # <<>>}
MatchedSpecificity(elem, sheet, i) == match_rule(elem, sheet[i])[1][1]
MatchedDeclarations(elem, sheet) ==
    UNION {{<<i, j>> : j \in DOMAIN sheet[i].declarations} : i \in Matched(elem, sheet)}
Declaring(elem, sheet, name) ==
    {c \in MatchedDeclarations(elem, sheet) : sheet[c[1]].declarations[c[2]].name = name}

\* Declaration c is applied before declaration e: its rule is less specific,
\* or as specific and earlier in the stylesheet, or the same rule and c is
\* written first.
AppliedBefore(elem, sheet, c, e) ==
    LET sc == MatchedSpecificity(elem, sheet, c[1])
        se == MatchedSpecificity(elem, sheet, e[1])
    IN \/ SpecificityLess(sc, se)
       \/ sc = se /\ c[1] < e[1]
       \/ c[1] = e[1] /\ c[2] < e[2]

DeclaredNames(elem, sheet) ==
    {sheet[c[1]].declarations[c[2]].name : c \in MatchedDeclarations(elem, sheet)}

\* The last writer of every name in that order.
CascadeOf(elem, sheet) ==
    [name \in DeclaredNames(elem, sheet) |->
        LET last == CHOOSE c \in Declaring(elem, sheet, name) :
                        \A e \in Declaring(elem, sheet, name) \ {c} :
                            AppliedBefore(elem, sheet, e, c)
        IN sheet[last[1]].declarations[last[2]].value]

NonDecreasing(rules) ==
    \A k \in 1..(Len(rules) - 1) : ~SpecificityLess(rules[k + 1][1], rules[k][1])

\* C4: for every element of the styled tree, the matched rules are applied in
\* non-decreasing order of specificity, and the property map is the one in
\* which each name has the value of its last declaration when the rules go
\* by specificity and, among equally specific ones, by stylesheet order.
C4_CascadeOrder ==
    \A i \in DOMAIN style_root :
        \A n \in StyledNodes(style_root[i]) :
            n.node.node_type = "Element" =>
                /\ NonDecreasing(sort_by(match_rules(n.node, style_sheet)))
                /\ n.specified_values = CascadeOf(n.node, style_sheet)

\* C4's case (scenario S3): `#x { width: 10px; } h1 { width: 50px; }` on
\* <h1 id="x">: the id rule comes first in the sheet and still wins.
C4_Witness ==
    /\ stage = "done"
    /\ dom = CascadeElement
    /\ style_sheet = <<Rule(<<IdSel(<<"x">>)>>, <<Declaration("width", Length(Px(10)))>>),
                       Rule(<<Tag("h1")>>, <<Declaration("width", Length(Px(50)))>>)>>
    /\ style_root[1].specified_values["width"] = Length(Px(10))
    /\ layout_root[1].dimensions.content.width = Px(10)

\* Scenario S1: <h1></h1> with `h1 { width: 100px; margin: auto; }` in the
\* 800x600 viewport, laid out.
S1_LaidOut ==
    /\ stage = "done"
    /\ dom = element("h1", EmptyMap, <<>>)
    /\ style_sheet = SheetS1
    /\ containing_block.content.width = Px(ViewportWidth)

\* C5 as stated: S1 yields a root box with content.width 100, margin.left and
\* margin.right 350, content.x 350, content.y 0 and content.height 0.
C5_S1Centered ==
    S1_LaidOut =>
        LET d == layout_root[1].dimensions IN
        /\ d.content.width = Px(100)
        /\ d.margin.left = Px(350) /\ d.margin.right = Px(350)
        /\ d.content.x = Px(350)
        /\ d.content.y = 0 /\ d.content.height = 0

\* C5 as amended: with no display declaration the h1 is an Inline box, so S1
\* yields a root box with content.width 100, margin.left and margin.right 0,
\* content.x 800 (the containing block's x plus its width), content.y 0 and
\* content.height 0.
C5_S1Inline ==
    S1_LaidOut =>
        LET d == layout_root[1].dimensions IN
        /\ layout_root[1].box_type = "InlineNode"
        /\ d.content.width = Px(100)
        /\ d.margin.left = 0 /\ d.margin.right = 0
        /\ d.content.x = Px(800)
        /\ d.content.y = 0 /\ d.content.height = 0

C5_Witness == S1_LaidOut /\ layout_root[1].dimensions.content.width = Px(100)

\* The mapping of the display property as C6 states it.
ClaimedDisplay(node) ==
    LET v == value(node, "display") IN
    IF v = <<Keyword("block")>> THEN "Block"
    ELSE IF v = <<Keyword("inline")>> THEN "Inline"
    ELSE IF v = <<Keyword("none")>> THEN "None"
    ELSE "Inline"

\* The styled nodes layout keeps if only the keyword none removes a node
\* (with its subtree).
RECURSIVE KeptNodes(_)
KeptNodes(node) ==
    IF ClaimedDisplay(node) = "None" THEN {}
    ELSE {node} \cup UNION {KeptNodes(node.children[i]) : i \in DOMAIN node.children}

\* C6: display maps block to Block, inline to Inline, none to None and every
\* other value, or none at all, to Inline; so once the box tree is built, the
\* styled nodes that have a box are those not under a `display: none`.
C6_DisplayMapping ==
    /\ stage \in {"building", "built", "done", "layout_panic"} =>
           \A n \in StyledNodes(style_root[1]) : display(n) = ClaimedDisplay(n)
    /\ stage \in {"built", "done"} =>
           {b.node[1] : b \in {x \in Boxes(layout_root[1]) : ~IsAnonymous(x)}}
           = KeptNodes(style_root[1])

RECURSIVE SameShape(_, _)
SameShape(styled, node) ==
    /\ styled.node = node
    /\ Len(styled.children) = Len(node.children)
    /\ \A i \in DOMAIN node.children : SameShape(styled.children[i], node.children[i])

\* C7: style_tree succeeds on every document, the styled tree has the shape
\* of the document, and the styled node of a text or comment node has an
\* empty property map.
C7_StyleTreeTotal ==
    /\ stage # "style_panic"
    /\ stage # "parsed" =>
           /\ SameShape(style_root[1], dom)
           /\ \A n \in StyledNodes(style_root[1]) :
                  n.node.node_type \in {"Text", "Comment"} => n.specified_values = EmptyMap

(***************************************************************************)
(* C8: css::parse halts on every input: it returns a stylesheet or fails   *)
(* fatally; in particular a selector holding a character such as `>`,      *)
(* which is neither whitespace, `#`, `.`, `,`, `{` nor an identifier        *)
(* character, makes it fail fatally rather than loop without advancing.    *)
(* Under FairSpecCss the parser keeps running while it can, so halting is  *)
(* reaching "returned" or "panic".                                         *)
(***************************************************************************)
C8_CssParseHalts == <>(css_pc \in {"returned", "panic"})

(***************************************************************************)
(* The source html::parse was given, read without the parser.  In the      *)
(* sources of the model no `<` stands inside a quoted attribute value, so  *)
(* every `<` begins a tag: `</` a closing tag, `<!` a comment, any other   *)
(* an opening tag.  NameAt(k) is the tag name that begins at input[k].      *)
(***************************************************************************)
HtmlInput == html_parser.input
NameAt(k) == parse_tag_name([pos |-> k - 1, input |-> HtmlInput]).result
ClosingTagsAt ==
    {k \in 1..(Len(HtmlInput) - 1) : HtmlInput[k] = "<" /\ HtmlInput[k + 1] = "/"}
OpeningTagsAt ==
    {k \in 1..(Len(HtmlInput) - 1) : HtmlInput[k] = "<" /\ HtmlInput[k + 1] \notin {"/", "!"}}

\* The two nodes are the same tree.
RECURSIVE SameNode(_, _)
SameNode(a, b) ==
    /\ a.node_type = b.node_type
    /\ IF a.node_type = "Element"
       THEN /\ a.tag_name = b.tag_name
            /\ a.attributes = b.attributes
            /\ Len(a.children) = Len(b.children)
            /\ \A i \in DOMAIN a.children : SameNode(a.children[i], b.children[i])
       ELSE a.data = b.data

ProducedElements == {k \in DOMAIN html_log : html_log[k].node.node_type = "Element"}
ProducedAtTop == {k \in DOMAIN html_log : html_log[k].depth = 1}

\* The element's two tags as they stand in the source: `<name` and `</name>`
\* with the name the element bears.
TagsAgree(e) ==
    /\ HtmlInput[e.open_at + 1] = "<"
    /\ NameAt(e.open_at + 2) = e.node.tag_name
    /\ start_with([pos |-> e.close_at, input |-> HtmlInput], <<"<", "/">>)
    /\ NameAt(e.close_at + 3) = e.node.tag_name
    /\ e.close_at + 3 + Len(e.node.tag_name) <= Len(HtmlInput)
    /\ HtmlInput[e.close_at + 3 + Len(e.node.tag_name)] = ">"

(***************************************************************************)
(* C9: html::parse returns a tree only if every element's closing tag name *)
(* equals its opening tag name, and a source with a mismatched closing tag *)
(* never yields a DOM: when parse has returned, every element it produced  *)
(* has agreeing tags in the source, and every closing tag of the source    *)
(* has an opening tag of its name before it.                               *)
(***************************************************************************)
C9_ClosingTagsMatch ==
    html_state = "returned" =>
        /\ \A k \in ProducedElements : TagsAgree(html_log[k])
        /\ \A k \in ClosingTagsAt :
               \E j \in OpeningTagsAt : j < k /\ NameAt(j + 1) = NameAt(k + 2)

\* The half of C9 that the asserts of parse_element do give.
ProducedTagsAgree == \A k \in ProducedElements : TagsAgree(html_log[k])

(***************************************************************************)
(* C10, as the code has it: for a source with one or more top-level nodes, *)
(* html::parse returns the last parsed top-level node, the one that begins *)
(* last in the source among those parse_nodes produced at the top level,   *)
(* and no other; it may be an element, a text node or a comment node.      *)
(***************************************************************************)
C10_ReturnsLastParsed ==
    html_state = "returned" =>
        /\ Len(html_root) = 1
        /\ \E k \in ProducedAtTop :
               /\ SameNode(html_root[1], html_log[k].node)
               /\ \A j \in ProducedAtTop : html_log[j].open_at <= html_log[k].open_at

\* parse has returned for a source with three top-level nodes, the last of
\* them a text node after an element.
C10_Witness ==
    /\ html_state = "returned"
    /\ Cardinality(ProducedAtTop) = 3
    /\ html_root[1].node_type = "Text"
    /\ \E k \in ProducedAtTop : html_log[k].node.node_type = "Element"

\* C10 as it is written: the returned root is moreover the last top-level
\* element of the source.
C10_RootIsLastElement ==
    html_state = "returned" =>
        /\ Len(html_root) = 1
        /\ html_root[1].node_type = "Element"
        /\ \E k \in ProducedAtTop \cap ProducedElements :
               /\ SameNode(html_root[1], html_log[k].node)
               /\ \A j \in ProducedAtTop \cap ProducedElements :
                      html_log[j].open_at <= html_log[k].open_at

(***************************************************************************)
(* The payloads of the text nodes of a DOM.                                *)
(***************************************************************************)
RECURSIVE TextsOf(_)
TextsOf(node) ==
    IF node.node_type = "Text" THEN {node.data}
    ELSE UNION {TextsOf(node.children[i]) : i \in DOMAIN node.children}

(***************************************************************************)
(* C11: in every DOM html::parse returns, every text node has a non-empty  *)
(* payload, and no text payload begins or ends with whitespace.            *)
(***************************************************************************)
C11_TextTrimmed ==
    html_state = "returned" =>
        \A data \in TextsOf(html_root[1]) :
            /\ data # <<>>
            /\ Head(data) \notin Whitespace
            /\ data[Len(data)] \notin Whitespace

\* What parse_nodes and parse_text do give: the payload is not empty and
\* does not begin with whitespace.
TextLeadTrimmed ==
    html_state = "returned" =>
        \A data \in TextsOf(html_root[1]) : data # <<>> /\ Head(data) \notin Whitespace

(***************************************************************************)
(* The children a Block box is to have, read off its styled children from  *)
(* the last to the first: a display-none child gives nothing, a Block      *)
(* child a group of its own, an Inline child joins the Anonymous group     *)
(* that follows it or begins one.                                          *)
(***************************************************************************)
RECURSIVE GroupRuns(_)
GroupRuns(styled) ==
    IF styled = <<>> THEN <<>>
    ELSE LET rest == GroupRuns(Tail(styled))
             child == Head(styled)
         IN IF display(child) = "None" THEN rest
            ELSE IF display(child) = "Block"
            THEN <<[box_type |-> "BlockNode", nodes |-> <<child>>]>> \o rest
            ELSE IF rest # <<>> /\ rest[1].box_type = "AnonymousBlock"
            THEN <<[rest[1] EXCEPT !.nodes = <<child>> \o @]>> \o Tail(rest)
            ELSE <<[box_type |-> "AnonymousBlock", nodes |-> <<child>>]>> \o rest

ChildrenGrouped(box) ==
    LET groups == GroupRuns(box.node[1].children) IN
    /\ Len(box.children) = Len(groups)
    /\ \A i \in DOMAIN box.children :
           LET child == box.children[i] IN
           /\ child.box_type = groups[i].box_type
           /\ IF child.box_type = "BlockNode"
              THEN child.node = <<groups[i].nodes[1]>>
              ELSE /\ child.node = <<>>
                   /\ Len(child.children) = Len(groups[i].nodes)
                   /\ \A j \in DOMAIN child.children :
                          /\ child.children[j].box_type = "InlineNode"
                          /\ child.children[j].node = <<groups[i].nodes[j]>>

(***************************************************************************)
(* C12: in the tree build_layout_tree returns, the children of every Block *)
(* box follow its styled children in document order: display-none children *)
(* give no box, each Block child is a direct Block child, and every        *)
(* maximal run of Inline children that no Block child interrupts lies, in  *)
(* order, under exactly one Anonymous box.                                 *)
(***************************************************************************)
C12_AnonymousGrouping ==
    stage \in {"built", "done"} =>
        \A box \in Boxes(layout_root[1]) : box.box_type = "BlockNode" => ChildrenGrouped(box)

\* Scenario S5: a block root whose three children, a text, an element and a
\* text, are all inline has exactly one child, an Anonymous box holding the
\* three Inline boxes in order.
C12_Witness ==
    /\ stage = "built"
    /\ layout_root[1].box_type = "BlockNode"
    /\ Len(layout_root[1].node[1].children) = 3
    /\ layout_root[1].node[1].children[1].node.node_type = "Text"
    /\ layout_root[1].node[1].children[2].node.node_type = "Element"
    /\ layout_root[1].node[1].children[3].node.node_type = "Text"
    /\ \A i \in 1..3 : display(layout_root[1].node[1].children[i]) = "Inline"
    /\ Len(layout_root[1].children) = 1
    /\ IsAnonymous(layout_root[1].children[1])
    /\ Len(layout_root[1].children[1].children) = 3
    /\ \A i \in 1..3 :
           layout_root[1].children[1].children[i].node = <<layout_root[1].node[1].children[i]>>

(***************************************************************************)
(* The table of block width resolution, as a relation between the styles   *)
(* of a Block box, the width of its containing block and the dimensions    *)
(* the box was given.  An auto margin counts as auto in the triple unless  *)
(* the width is not auto and the total exceeds the containing width.       *)
(***************************************************************************)
WidthTable(box, containing_width) ==
    LET style == get_style_node(box)
        d == box.dimensions
        width == IF value(style, "width") = <<>> THEN auto ELSE value(style, "width")[1]
        margin_left == lookup(style, "margin-left", "margin", zero)
        margin_right == lookup(style, "margin-right", "margin", zero)
        total == SumSeq(<<to_px(width), to_px(margin_left), to_px(margin_right),
                          to_px(lookup(style, "border-left-width", "border-width", zero)),
                          to_px(lookup(style, "border-right-width", "border-width", zero)),
                          to_px(lookup(style, "padding-left", "padding", zero)),
                          to_px(lookup(style, "padding-right", "padding", zero))>>)
        underflow == containing_width - total
        forced == width # auto /\ total > containing_width
        width_auto == width = auto
        left_auto == margin_left = auto /\ ~forced
        right_auto == margin_right = auto /\ ~forced
    IN /\ ~width_auto => d.content.width = to_px(width)
       /\ (~width_auto /\ ~left_auto /\ ~right_auto) =>
              /\ d.margin.left = to_px(margin_left)
              /\ d.margin.right = to_px(margin_right) + underflow
       /\ (~width_auto /\ ~left_auto /\ right_auto) =>
              /\ d.margin.left = to_px(margin_left)
              /\ d.margin.right = underflow
       /\ (~width_auto /\ left_auto /\ ~right_auto) =>
              /\ d.margin.left = underflow
              /\ d.margin.right = to_px(margin_right)
       /\ (~width_auto /\ left_auto /\ right_auto) =>
              /\ 2 * d.margin.left = underflow
              /\ 2 * d.margin.right = underflow
       /\ (width_auto /\ underflow >= 0) =>
              /\ d.content.width = underflow
              /\ d.margin.left = to_px(margin_left)
              /\ d.margin.right = to_px(margin_right)
       /\ (width_auto /\ underflow < 0) =>
              /\ d.content.width = 0
              /\ d.margin.left = to_px(margin_left)
              /\ d.margin.right = to_px(margin_right) + underflow

\* Scenario S4 has been laid out.
S4_LaidOut == stage = "done" /\ style_sheet = SheetS4

(***************************************************************************)
(* C13: after layout every Block box laid out in the viewport or in a      *)
(* Block box has the width and the left and right margins the table gives  *)
(* for its triple (width auto, margin-left auto, margin-right auto) and    *)
(* the underflow, a width that is not auto being kept as it is; in         *)
(* scenario S4 the width stays 900 and margin.right is -100.               *)
(***************************************************************************)
C13_WidthTable ==
    stage = "done" =>
        /\ layout_root[1].box_type = "BlockNode" =>
               WidthTable(layout_root[1], containing_block.content.width)
        /\ \A b \in Boxes(layout_root[1]) :
               b.box_type = "BlockNode" =>
                   \A i \in DOMAIN b.children :
                       b.children[i].box_type = "BlockNode" =>
                           WidthTable(b.children[i], b.dimensions.content.width)
        /\ S4_LaidOut =>
               /\ layout_root[1].dimensions.content.width = Px(900)
               /\ layout_root[1].dimensions.margin.right = Px(0 - 100)

\* The case of two auto margins about a width that fits: each margin is half
\* of an underflow that is more than nothing.
C13_Witness ==
    /\ stage = "done"
    /\ layout_root[1].box_type = "BlockNode"
    /\ value(get_style_node(layout_root[1]), "width") # <<>>
    /\ value(get_style_node(layout_root[1]), "width")[1].type = "Length"
    /\ lookup(get_style_node(layout_root[1]), "margin-left", "margin", zero) = auto
    /\ lookup(get_style_node(layout_root[1]), "margin-right", "margin", zero) = auto
    /\ layout_root[1].dimensions.margin.left > 0
    /\ layout_root[1].dimensions.margin.left = layout_root[1].dimensions.margin.right

\* Where the parent put the top of a Block box's margin box.
MarginTop(box) ==
    box.dimensions.content.y - box.dimensions.padding.top - box.dimensions.border.top
    - box.dimensions.margin.top

\* Scenario S2: <div><p></p><p></p></div> with
\* `div, p { display: block; } p { height: 20px; }` in the viewport, laid out.
S2_LaidOut ==
    /\ stage = "done"
    /\ dom = element("div", EmptyMap,
                     <<element("p", EmptyMap, <<>>), element("p", EmptyMap, <<>>)>>)
    /\ style_sheet = SheetS2
    /\ containing_block.content.width = Px(ViewportWidth)

(***************************************************************************)
(* C14: after layout, a Block box whose `height` is a length has that      *)
(* length for content.height, whatever the margin-box heights of its       *)
(* children add up to, and any other Block box has that sum; a Block child *)
(* of a Block box stands below the final margin-box heights of the         *)
(* children before it.  Scenario S2 gives the outer content.height 40, the *)
(* first p content.y 0 and the second p content.y 20.                      *)
(***************************************************************************)
C14_ExplicitHeight ==
    stage = "done" =>
        /\ \A b \in Boxes(layout_root[1]) :
               b.box_type = "BlockNode" =>
                   /\ b.dimensions.content.height =
                          IF HasExplicitHeight(b)
                          THEN to_px(value(get_style_node(b), "height")[1])
                          ELSE MarginBoxHeights(b.children)
                   /\ \A k \in DOMAIN b.children :
                          b.children[k].box_type = "BlockNode" =>
                              MarginTop(b.children[k]) =
                                  b.dimensions.content.y
                                  + MarginBoxHeights(SubSeq(b.children, 1, k - 1))
        /\ S2_LaidOut =>
               /\ layout_root[1].dimensions.content.height = Px(40)
               /\ layout_root[1].children[1].dimensions.content.y = Px(0)
               /\ layout_root[1].children[2].dimensions.content.y = Px(20)

\* A Block box with an explicit height that differs from what its children
\* accumulated, followed by a Block sibling.
C14_Witness ==
    /\ stage = "done"
    /\ \E b \in Boxes(layout_root[1]) :
           /\ b.box_type = "BlockNode"
           /\ Len(b.children) = 2
           /\ b.children[1].box_type = "BlockNode"
           /\ b.children[2].box_type = "BlockNode"
           /\ HasExplicitHeight(b.children[1])
           /\ b.children[1].children # <<>>
           /\ MarginBoxHeights(b.children[1].children) # b.children[1].dimensions.content.height
           /\ b.children[2].dimensions.content.y > b.dimensions.content.y

(***************************************************************************)
(* The source parse_value was given, read without the parser.              *)
(***************************************************************************)
ValueInput == css_parser.input
HexPairAt(k) == 16 * HexDigit[ValueInput[k]] + HexDigit[ValueInput[k + 1]]
SixHexDigits ==
    Len(ValueInput) >= 7 /\ \A k \in 2..7 : ValueInput[k] \in DOMAIN HexDigit

(***************************************************************************)
(* C15: parse_value selects the shape from the first character.  A digit   *)
(* gives Length(n) with n the leading run of digits and `.`, and the       *)
(* parser stands at the next `;` (or the end); `#` and six hexadecimal     *)
(* digits give Color(r, g, b, 255); any other first character gives the    *)
(* Keyword of the identifier characters that follow.  parse_value fails    *)
(* only on an empty input, a run with more than one `.`, or a `#` without  *)
(* six hexadecimal digits.  `10px` and `10foo` give 10 pixels, `#812dd3`   *)
(* gives (129, 45, 211, 255).                                              *)
(***************************************************************************)
C15_ParseValue ==
    /\ css_pc = "value_returned" =>
           /\ Head(ValueInput) \in Digits =>
                  /\ css_value = <<Length(ParseF32(LeadingNumber(ValueInput)))>>
                  /\ css_parser.pos = RunLength(ValueInput, Chars \ {";"})
           /\ Head(ValueInput) = "#" =>
                  /\ SixHexDigits
                  /\ css_value = <<Color(HexPairAt(2), HexPairAt(4), HexPairAt(6), 255)>>
                  /\ css_parser.pos = 7
           /\ Head(ValueInput) \notin Digits \cup {"#"} =>
                  /\ css_value =
                         <<Keyword(SubSeq(ValueInput, 1, RunLength(ValueInput, NameChars)))>>
                  /\ css_parser.pos = RunLength(ValueInput, NameChars)
           /\ ValueInput \in {<<"1", "0", "p", "x">>, <<"1", "0", "f", "o", "o">>} =>
                  css_value = <<Length(Px(10))>>
           /\ ValueInput = <<"#", "8", "1", "2", "d", "d", "3">> =>
                  css_value = <<Color(129, 45, 211, 255)>>
    /\ css_pc = "panic" =>
           \/ ValueInput = <<>>
           \/ Head(ValueInput) \in Digits /\ Points(LeadingNumber(ValueInput)) > 1
           \/ Head(ValueInput) = "#" /\ ~SixHexDigits

\* `10foo;` has been parsed: 10 pixels, and the parser stands at the `;`.
C15_Witness ==
    /\ css_pc = "value_returned"
    /\ ValueInput = <<"1", "0", "f", "o", "o", ";">>
    /\ css_value = <<Length(Px(10))>>
    /\ css_parser.pos = 5

(***************************************************************************)
(* The declarations css::parse has read so far.                            *)
(***************************************************************************)
ParsedDeclarations ==
    {css_declarations[k] : k \in DOMAIN css_declarations}
    \cup UNION {{css_rules[i].declarations[k] : k \in DOMAIN css_rules[i].declarations} :
                    i \in DOMAIN css_rules}

(***************************************************************************)
(* C16: a declaration with an unknown property name or an unsupported      *)
(* value shape (a percentage, a negative number, a functional value, a     *)
(* 3-digit hex colour) never aborts and is dropped without effect: on      *)
(* the rules drawn css::parse does not panic, and the only length it reads *)
(* for `width` or `margin` is the supported `1px`.                         *)
(***************************************************************************)
C16_UnsupportedDropped ==
    /\ css_pc # "panic"
    /\ \A d \in ParsedDeclarations :
           (d.name \in {<<"w", "i", "d", "t", "h">>, <<"m", "a", "r", "g", "i", "n">>}
            /\ d.value.type = "Length") => d.value = Length(Px(1))

\* What does hold: an unknown property name alone never aborts.
UnknownPropertyParsed ==
    css_parser.input = <<"a", "{", "z", "o", "o", "m", ":", "1", ";", "}">> => css_pc # "panic"

(***************************************************************************)
(* C17: build_layout_tree fails fatally exactly when the root specifies    *)
(* `display: none`; for any other root it returns a box tree whose root    *)
(* box is Block or Inline as the root's display kind is.                   *)
(***************************************************************************)
C17_RootDisplayNone ==
    /\ stage = "layout_panic" => value(style_root[1], "display") = <<Keyword("none")>>
    /\ stage \in {"built", "done"} =>
           /\ value(style_root[1], "display") # <<Keyword("none")>>
           /\ layout_root[1].box_type = BoxTypeOf(style_root[1])

\* What does hold: the panic comes exactly with the display kind None.
RootKindNone ==
    /\ stage = "layout_panic" => display(style_root[1]) = "None"
    /\ stage \in {"built", "done"} =>
           /\ display(style_root[1]) \in {"Block", "Inline"}
           /\ layout_root[1].box_type =
                  (IF display(style_root[1]) = "Block" THEN "BlockNode" ELSE "InlineNode")

(***************************************************************************)
(* The canvas read without paint_item.  The clipped rectangle of a command *)
(* is what of its rectangle lies within the canvas; the pixel of column x  *)
(* and row y is covered by it when the whole pixels left of and above the  *)
(* clipped rectangle are at most x and y, and those left of and above its  *)
(* far edges are more.                                                     *)
(***************************************************************************)
Within(f, size) == IF f < 0 THEN 0 ELSE IF f > Px(size) THEN Px(size) ELSE f

Covers(c, rect, x, y) ==
    /\ Half(Within(rect.x, c.width)) <= x
    /\ x < Half(Within(rect.x + rect.width, c.width))
    /\ Half(Within(rect.y, c.height)) <= y
    /\ y < Half(Within(rect.y + rect.height, c.height))

\* The commands among the first k of the display list that cover a pixel.
Covering(c, k, x, y) == {i \in 1..k : Covers(c, paint_list[i].rect, x, y)}

Last(S) == CHOOSE i \in S : \A j \in S : j <= i

PixelAt(c, x, y) == c.pixels[x + y * c.width + 1]

(***************************************************************************)
(* C19: paint produces a canvas of exactly width * height pixels, width    *)
(* and height being the bounds as usize; no write of paint_item falls out  *)
(* of that buffer, whatever the rectangle of the command (negative, partly *)
(* or wholly outside the bounds); and after each item every pixel has the  *)
(* colour of the last command so far whose clipped rectangle covers it, or *)
(* opaque white if none does.                                              *)
(***************************************************************************)
C19_PaintCanvas ==
    /\ paint_pc # "paint_panic"
    /\ paint_pc \in {"painting", "painted"} =>
         LET c == canvas[1]
         IN /\ c.width = AsUsize(paint_bounds.width)
            /\ c.height = AsUsize(paint_bounds.height)
            /\ Len(c.pixels) = c.width * c.height
            /\ \A x \in 0..(c.width - 1), y \in 0..(c.height - 1) :
                 LET S == Covering(c, paint_next - 1, x, y)
                 IN PixelAt(c, x, y) =
                      IF S = {} THEN White ELSE paint_list[Last(S)].color

\* C19's case: paint has returned a canvas on which a pixel was painted over
\* in another colour and a pixel is left white, from a display list with a
\* command that begins left of the canvas and covers a pixel, and a command
\* of a rectangle with an area that covers no pixel.
C19_Witness ==
    /\ paint_pc = "painted"
    /\ LET c == canvas[1]
           n == Len(paint_list)
           Pixels == (0..(c.width - 1)) \X (0..(c.height - 1))
       IN /\ \E p \in Pixels :
                \E i, j \in Covering(c, n, p[1], p[2]) :
                    i < j /\ paint_list[i].color # paint_list[j].color
          /\ \E p \in Pixels : Covering(c, n, p[1], p[2]) = {}
          /\ \E i \in 1..n : /\ paint_list[i].rect.x < 0
                             /\ \E p \in Pixels : i \in Covering(c, n, p[1], p[2])
          /\ \E i \in 1..n : /\ paint_list[i].rect.width > 0
                             /\ paint_list[i].rect.height > 0
                             /\ \A p \in Pixels : i \notin Covering(c, n, p[1], p[2])

(***************************************************************************)
(* The display list read without render_layout_box.  A box of the tree is  *)
(* named by its path, the child indices from the root; the paths in        *)
(* preorder are the paths in lexicographic order, a path before the paths  *)
(* it begins.                                                              *)
(***************************************************************************)
RECURSIVE BoxPaths(_)
BoxPaths(box) ==
    {<<>>} \cup UNION {{<<i>> \o q : q \in BoxPaths(box.children[i])} :
                          i \in DOMAIN box.children}

RECURSIVE BoxAt(_, _)
BoxAt(box, path) ==
    IF path = <<>> THEN box ELSE BoxAt(box.children[Head(path)], Tail(path))

RECURSIVE PathBefore(_, _)
PathBefore(p, q) ==
    IF p = <<>> THEN q # <<>>
    ELSE IF q = <<>> THEN FALSE
    ELSE IF Head(p) # Head(q) THEN Head(p) < Head(q)
    ELSE PathBefore(Tail(p), Tail(q))

\* The paths of a set, the earliest first.
RECURSIVE InPreorder(_)
InPreorder(paths) ==
    IF paths = {} THEN <<>>
    ELSE LET first == CHOOSE p \in paths : \A q \in paths \ {p} : PathBefore(p, q)
         IN <<first>> \o InPreorder(paths \ {first})

HasColor(box, name) ==
    /\ box.box_type # "AnonymousBlock"
    /\ name \in DOMAIN box.node[1].specified_values
    /\ box.node[1].specified_values[name].type = "Color"

ColorOf(box, name) == box.node[1].specified_values[name].rgba

\* The commands a box is to give of its own: the background over the border
\* box, the strips left, right, top and bottom, the text.
OwnBackground(box) ==
    IF HasColor(box, "background")
    THEN <<SolidColor(ColorOf(box, "background"), border_box(box.dimensions))>>
    ELSE <<>>

OwnBorders(box) ==
    LET bb == border_box(box.dimensions)
        b == box.dimensions.border
        color == ColorOf(box, "border-color")
    IN IF HasColor(box, "border-color")
       THEN << [command |-> "SolidColor", text |-> "", color |-> color,
                rect |-> [bb EXCEPT !.width = b.left]],
               [command |-> "SolidColor", text |-> "", color |-> color,
                rect |-> [bb EXCEPT !.x = bb.x + bb.width - b.right, !.width = b.right]],
               [command |-> "SolidColor", text |-> "", color |-> color,
                rect |-> [bb EXCEPT !.height = b.top]],
               [command |-> "SolidColor", text |-> "", color |-> color,
                rect |-> [bb EXCEPT !.y = bb.y + bb.height - b.bottom,
                                    !.height = b.bottom]] >>
       ELSE <<>>

OwnText(box) ==
    IF box.box_type = "InlineNode" /\ box.node[1].node.node_type = "Text"
    THEN <<[command |-> "Text", text |-> box.node[1].node.data, color |-> TextColor,
            rect |-> border_box(box.dimensions)]>>
    ELSE <<>>

OwnCommands(box) == OwnBackground(box) \o OwnBorders(box) \o OwnText(box)

RECURSIVE Concat(_)
Concat(lists) == IF lists = <<>> THEN <<>> ELSE Head(lists) \o Concat(Tail(lists))

ExpectedDisplayList(root) ==
    LET order == InPreorder(BoxPaths(root))
    IN Concat([i \in DOMAIN order |-> OwnCommands(BoxAt(root, order[i]))])

(***************************************************************************)
(* C20: the display list paint builds holds the commands of the boxes in   *)
(* preorder, a box before its descendants and the children in their order; *)
(* the commands of a box are its background SolidColor over the border box *)
(* if `background` is a colour, then the four border strips left, right,   *)
(* top, bottom if `border-color` is a colour, then the Text command if the *)
(* box is Inline and its styled node is a text node; an Anonymous box      *)
(* gives no command of its own.                                            *)
(***************************************************************************)
C20_DisplayListOrder ==
    paint_pc \in {"painting", "painted"} =>
        paint_list = ExpectedDisplayList(layout_root[1])

\* C20's case: a display list was built for a tree in which a first child
\* with a child of its own is followed by a second child; one box gives a
\* background and four strips, one a Text command, one is Anonymous, and
\* one is a Block box of a text node.
C20_Witness ==
    /\ paint_pc \in {"painting", "painted"}
    /\ LET root == layout_root[1]
           boxes == {BoxAt(root, p) : p \in BoxPaths(root)}
       IN /\ Len(root.children) = 2
          /\ Len(root.children[1].children) = 1
          /\ \E box \in boxes : Len(OwnCommands(box)) = 5
          /\ \E box \in boxes : OwnText(box) # <<>>
          /\ \E box \in boxes : box.box_type = "AnonymousBlock"
          /\ \E box \in boxes : /\ box.box_type = "BlockNode"
                                /\ box.node[1].node.node_type = "Text"

(***************************************************************************)
(* What a selector asks of an element, read without the code.  A piece of  *)
(* a class attribute is a stretch of it without a space that begins at the *)
(* beginning or after a space and ends at the end or before a space.       *)
(***************************************************************************)
IsPiece(c, s) ==
    /\ \A k \in DOMAIN c : c[k] # " "
    /\ \E a \in 0..Len(s) : \E b \in a..Len(s) :
          /\ SubSeq(s, a + 1, b) = c
          /\ a = 0 \/ s[a] = " "
          /\ b = Len(s) \/ s[b + 1] = " "

TagPresent(elem, s) == s.tag_name = <<>> \/ s.tag_name[1] = elem.tag_name

IdPresent(elem, s) ==
    \/ s.id = <<>>
    \/ "id" \in DOMAIN elem.attributes /\ elem.attributes["id"] = s.id[1]

ClassesPresent(elem, s) ==
    \A k \in DOMAIN s.class :
        /\ "class" \in DOMAIN elem.attributes
        /\ IsPiece(s.class[k], elem.attributes["class"])

AllPresent(elem, s) ==
    TagPresent(elem, s) /\ IdPresent(elem, s) /\ ClassesPresent(elem, s)

(***************************************************************************)
(* C21: matches_simple_selectors(E, s) is true iff every component s       *)
(* specifies is present on E: the tag name of s is absent or E's tag name, *)
(* the id of s is absent or E's id attribute, and every class of s is a    *)
(* piece of E's class attribute split on spaces; so a selector with no     *)
(* tag, no id and no classes matches every element.                        *)
(***************************************************************************)
C21_SelectorMatches ==
    match_result # <<>> =>
        /\ match_result[1] = AllPresent(match_elem, match_selector[1])
        /\ match_selector[1] = SimpleSelector(<<>>, <<>>, <<>>) => match_result[1]

\* C21's case: a selector with an id and two classes was matched against
\* an element that has no id attribute and both classes, and was refused.
C21_Witness ==
    /\ match_result = <<FALSE>>
    /\ match_selector[1].id # <<>>
    /\ Len(match_selector[1].class) = 2
    /\ "id" \notin DOMAIN match_elem.attributes
    /\ TagPresent(match_elem, match_selector[1])
    /\ ClassesPresent(match_elem, match_selector[1])
    /\ match_selector[1].class[1] # match_selector[1].class[2]

(***************************************************************************)
(* The rules match_rules has gone through that have a selector asking      *)
(* nothing the element lacks, and the first such selector of a rule.       *)
(***************************************************************************)
MatchingSelectors(elem, rule) ==
    {k \in DOMAIN rule.selectors : AllPresent(elem, rule.selectors[k])}

RulesMatching(n) ==
    {i \in 1..n : MatchingSelectors(match_elem, match_sheet[i]) # {}}

\* The k-th smallest member of a set of numbers.
Nth(S, k) == CHOOSE i \in S : Cardinality({j \in S : j <= i}) = k

FirstMatching(elem, rule) ==
    CHOOSE k \in MatchingSelectors(elem, rule) :
        \A j \in MatchingSelectors(elem, rule) : k <= j

Count(opt) == IF opt = <<>> THEN 0 ELSE 1

SpecificityOf(s) == <<Count(s.id), Len(s.class), Count(s.tag_name)>>

(***************************************************************************)
(* C22: a rule matches the element iff at least one of its selectors       *)
(* matches it; match_rules then holds it exactly once, in stylesheet       *)
(* order, paired with the specificity (id count 0 or 1, number of classes, *)
(* tag count 0 or 1) of the first selector of the rule's list that         *)
(* matches, whether or not a later selector of the rule is more specific.  *)
(***************************************************************************)
C22_FirstMatchingSelector ==
    match_pc \in {"matching", "returned"} =>
        LET M == RulesMatching(match_next - 1)
        IN /\ Len(matched) = Cardinality(M)
           /\ \A k \in DOMAIN matched :
                LET rule == match_sheet[Nth(M, k)]
                IN /\ matched[k][2] = rule
                   /\ matched[k][1] =
                        SpecificityOf(rule.selectors[FirstMatching(match_elem, rule)])

\* C22's case: match_rules has returned from a stylesheet with a rule that
\* matches by two selectors, the second more specific than the first, and
\* a rule none of whose selectors matches.
C22_Witness ==
    /\ match_pc = "returned"
    /\ \E i \in DOMAIN match_sheet :
          LET rule == match_sheet[i]
          IN /\ MatchingSelectors(match_elem, rule) = {1, 2}
             /\ SpecificityLess(SpecificityOf(rule.selectors[1]),
                                SpecificityOf(rule.selectors[2]))
    /\ \E i \in DOMAIN match_sheet : MatchingSelectors(match_elem, match_sheet[i]) = {}
    /\ matched # <<>>

(***************************************************************************)
(* The Anonymous children of the boxes of the laid out tree: a pair of a   *)
(* box and the index of an Anonymous child of it.  The box is the          *)
(* containing block the child was laid out in.                             *)
(***************************************************************************)
AnonymousChildren ==
    {bi \in UNION {{<<b, i>> : i \in DOMAIN b.children} : b \in Boxes(layout_root[1])} :
        IsAnonymous(bi[1].children[bi[2]])}

\* What the containing block had accumulated when its i-th child was laid
\* out: the margin-box heights of the children before it.
HeightBefore(b, i) ==
    SumSeq([j \in 1..(i - 1) |-> margin_box(b.children[j].dimensions).height])

\* The line wraps among the children of a container: the widths are summed
\* child by child, and a sum over the limit is a wrap and begins at 0 again.
RECURSIVE WrapsFrom(_, _, _, _)
WrapsFrom(box, i, sum, limit) ==
    IF i > Len(box.children) THEN 0
    ELSE LET w == sum + margin_box(box.children[i].dimensions).width
         IN IF w > limit THEN 1 + WrapsFrom(box, i + 1, 0, limit)
            ELSE WrapsFrom(box, i + 1, w, limit)

Wraps(box, limit) == WrapsFrom(box, 1, 0, limit)

(***************************************************************************)
(* C23, as the code has it: after layout an Anonymous box's content.x is   *)
(* the containing block's content.x, and its content.y is the containing   *)
(* block's content.y plus the content.height the containing block had      *)
(* accumulated from the siblings laid out before it, plus the containing   *)
(* block's content.y once more for every line wrap of its inline children. *)
(***************************************************************************)
C23_AnonymousBelowSiblings ==
    stage = "done" =>
        \A bi \in AnonymousChildren :
            LET b == bi[1]
                c == b.children[bi[2]]
            IN /\ c.dimensions.content.x = b.dimensions.content.x
               /\ c.dimensions.content.y =
                    b.dimensions.content.y + HeightBefore(b, bi[2])
                    + Wraps(c, b.dimensions.content.width) * b.dimensions.content.y

\* C23's case: a laid out tree with an Anonymous box that follows a sibling
\* with a height, in a containing block that does not begin at y = 0, and
\* whose inline children wrap.
C23_Witness ==
    /\ stage = "done"
    /\ \E bi \in AnonymousChildren :
          /\ HeightBefore(bi[1], bi[2]) > 0
          /\ bi[1].dimensions.content.y > 0
          /\ Wraps(bi[1].children[bi[2]], bi[1].dimensions.content.width) > 0

(***************************************************************************)
(* C23 as claimed: after layout an Anonymous box's content.x and content.y *)
(* are the containing block's content.x and content.y, whatever siblings   *)
(* were laid out before it.                                                *)
(***************************************************************************)
C23_AnonymousAtOrigin ==
    stage = "done" =>
        \A bi \in AnonymousChildren :
            LET b == bi[1]
                c == b.children[bi[2]]
            IN /\ c.dimensions.content.x = b.dimensions.content.x
               /\ c.dimensions.content.y = b.dimensions.content.y

HasLengthHeight(box) ==
    LET h == value(get_style_node(box), "height")
    IN h # <<>> /\ h[1].type = "Length"

(***************************************************************************)
(* C24: after layout an Anonymous box's content.height is the              *)
(* content.height its containing Block box had accumulated when the        *)
(* Anonymous box was laid out, the sum of the margin-box heights of the    *)
(* siblings before it, whatever its own inline children are; so a Block    *)
(* box with no explicit height whose only child is an Anonymous box ends   *)
(* with content.height 0.                                                  *)
(***************************************************************************)
C24_AnonymousHeight ==
    stage = "done" =>
        /\ \A bi \in AnonymousChildren :
              bi[1].children[bi[2]].dimensions.content.height = HeightBefore(bi[1], bi[2])
        /\ \A b \in Boxes(layout_root[1]) :
              /\ b.box_type = "BlockNode"
              /\ ~HasLengthHeight(b)
              /\ Len(b.children) = 1
              /\ IsAnonymous(b.children[1])
              => b.dimensions.content.height = 0

\* C24's case: a laid out tree in which an Anonymous box follows a sibling
\* with a height and has an inline child with a height of its own, and in
\* which a Block box of no explicit height has for its only child an
\* Anonymous box with such an inline child.
C24_Witness ==
    /\ stage = "done"
    /\ \E bi \in AnonymousChildren :
          /\ HeightBefore(bi[1], bi[2]) > 0
          /\ \E k \in DOMAIN bi[1].children[bi[2]].children :
                bi[1].children[bi[2]].children[k].dimensions.content.height > 0
    /\ \E b \in Boxes(layout_root[1]) :
          /\ b.box_type = "BlockNode"
          /\ ~HasLengthHeight(b)
          /\ Len(b.children) = 1
          /\ IsAnonymous(b.children[1])
          /\ b.children[1].children[1].dimensions.content.height > 0

(***************************************************************************)
(* C25: in layout_inline_children, after each child is laid out: if the    *)
(* container's accumulated content.width plus the child's margin-box width *)
(* exceeds the containing block's content.width, the container wraps to a  *)
(* new line, its content.width is reset to 0 and its content.y strictly    *)
(* increases; otherwise its content.width grows by the child's margin-box  *)
(* width and its content.y is unchanged.                                   *)
(***************************************************************************)
InlineTurnAsClaimed ==
    LET before == inline_box[1].dimensions.content
        after == inline_box'[1].dimensions.content
        child == inline_box'[1].children[inline_next]
        new_width == before.width + margin_box(child.dimensions).width
    IN IF new_width > inline_containing_block.content.width
       THEN after.width = 0 /\ after.y > before.y
       ELSE after.width = new_width /\ after.y = before.y

C25_InlineWrap == [][inline_next' = inline_next + 1 => InlineTurnAsClaimed]_vars

\* What does hold of a turn: on a wrap content.y grows by the containing
\* block's content.y, which may be 0.
InlineTurnOfTheCode ==
    LET before == inline_box[1].dimensions.content
        after == inline_box'[1].dimensions.content
        child == inline_box'[1].children[inline_next]
        new_width == before.width + margin_box(child.dimensions).width
    IN IF new_width > inline_containing_block.content.width
       THEN after.width = 0 /\ after.y = before.y + inline_containing_block.content.y
       ELSE after.width = new_width /\ after.y = before.y

InlineWrapByContainingY == [][inline_next' = inline_next + 1 => InlineTurnOfTheCode]_vars

(***************************************************************************)
(* C26: html::parse halts on every input.  The cursor never moves          *)
(* backwards, and every turn of parse_nodes after which the parser goes on *)
(* (a parse_comment, a parse_text, each half of a parse_element) moves it  *)
(* forwards, as does every parse_attr that returns; the cursor stays       *)
(* within the input, so the turns are at most len(input) and so are the    *)
(* nodes produced; parse then returns a node or fails fatally, and a       *)
(* source that is empty or whitespace only fails fatally.                  *)
(***************************************************************************)
HtmlHalted == html_state \in {"returned", "panic"}

CursorAdvances ==
    /\ html_state = "running"
    /\ html_parser'.input = html_parser.input
    /\ html_parser'.pos >= html_parser.pos
    /\ html_state' = "running" => html_parser'.pos > html_parser.pos

AttrAdvances ==
    \A k \in 0..Len(html_parser.input) :
        LET a == parse_attr([html_parser EXCEPT !.pos = k])
        IN a.ok => a.p.pos > k

OnlyWhitespace == \A k \in DOMAIN html_parser.input : html_parser.input[k] \in Whitespace

C26_HtmlParseHalts ==
    /\ [][CursorAdvances]_vars
    /\ [](/\ html_parser.pos <= Len(html_parser.input)
          /\ Len(html_log) <= html_parser.pos
          /\ AttrAdvances
          /\ html_state = "returned" => html_root # <<>>
          /\ HtmlHalted /\ OnlyWhitespace => html_state = "panic")

\* C26's case: parse has returned after it produced a comment, a text and
\* an element with an attribute that holds one of the two.
C26_Witness ==
    /\ html_state = "returned"
    /\ \E k \in DOMAIN html_log : html_log[k].node.node_type = "Comment"
    /\ \E k \in DOMAIN html_log : html_log[k].node.node_type = "Text"
    /\ \E k \in DOMAIN html_log :
          /\ html_log[k].node.node_type = "Element"
          /\ html_log[k].node.children # <<>>
          /\ DOMAIN html_log[k].node.attributes # {}

====
